---- MODULE Spec2Model ----
(***************************************************************************)
(* Model of the compression core of the Data Compression Portal:           *)
(*   backend/algorithms/rle.js      (basic and advanced run-length coding) *)
(*   backend/algorithms/huffman.js  (Huffman coding, unnamed/part_000)     *)
(*                                                                         *)
(* JavaScript values are modelled as records carrying a "kind":            *)
(*   null / undefined   [kind |-> "null"]                                  *)
(*   a string           [kind |-> "string", d |-> <<UTF-16 code units>>]   *)
(*   an array of bytes  [kind |-> "array",  d |-> <<byte values>>]         *)
(*   an object          [kind |-> "object", field |-> value, ...]          *)
(* An object has exactly the fields that were set: a missing field is a    *)
(* field name outside DOMAIN.  Indices are 0-based as in the source; At    *)
(* reads a 0-based position of a TLA+ sequence.                            *)
(***************************************************************************)
EXTENDS Integers, Sequences, FiniteSets, TLC

VARIABLES
    data,        \* the input handed to an encoder
    payload,     \* the payload the caller holds (null before encoding)
    alteration,  \* what was changed in the payload after encoding
    result,      \* the value a decoder returned
    thrown,      \* the Error the last call threw, or NoError
    pc,          \* "ready", "encoded", "altered" or "decoded"
    encoder,     \* the encoder that was called
    decoder,     \* the decoder that was called
    codeTable,   \* the codes object huffmanCompress built during its call
    freqs,       \* buildHuffmanTree: its argument
    minHeap,     \* buildHuffmanTree: the array of its MinHeap
    merges,      \* buildHuffmanTree: passes of the merge loop made so far
    built,       \* buildHuffmanTree: the node returned
    at,          \* buildHuffmanTree: "called", "inserted", "merging" or "returned"
    posted,      \* API client: the file and the algorithm it posts
    compressReply,    \* API client: the response of POST /api/compress
    decompressReply,  \* API client: the response of POST /api/decompress
    via,         \* API client: how it sent compressedData, "body" or "file"
    file,              \* UI: the File selected, or null
    fileMetadata,      \* UI: name, size and type shown and used by the downloads
    selectedAlgorithm, \* UI: "huffman" or "rle"
    isProcessing,      \* UI: a handler is between its fetch and its finally
    compressionStats,  \* UI: stats of the last compression response
    compressedData,    \* UI: compressedData of the last compression response
    decompressedData,  \* UI: decompressedData of the last decompression response
    error,             \* UI: the message shown, '' when there is none
    pending,     \* UI: the handler awaiting its fetch and the response on its way
    settled,     \* UI: the handler whose fetch settled last, and whether the
                 \*     request had reached the server
    invoked,     \* contexts: the call of each context, its position and outcome
    locals       \* contexts: the variables the calls declare, by slot

\* the state of a codec call and of its caller
callVars == <<data, payload, alteration, result, thrown, pc, encoder, decoder, codeTable>>

\* the state of a call of buildHuffmanTree followed step by step
buildVars == <<freqs, minHeap, merges, built, at>>

\* the state of a client of the two endpoints of the server
apiVars == <<posted, compressReply, decompressReply, via>>

\* the state of the React component and of its request in flight
uiVars == <<file, fileMetadata, selectedAlgorithm, isProcessing, compressionStats,
            compressedData, decompressedData, error, pending, settled>>

\* the calls of the two invocation contexts
contextVars == <<invoked, locals>>

\* what a codec call seen as one step leaves alone
outsideCalls == <<buildVars, apiVars, uiVars, contextVars>>

\* what the steps of buildHuffmanTree leave alone
outsideBuild == <<callVars, apiVars, uiVars, contextVars>>

\* what a request of the API client leaves alone
outsideApi == <<callVars, buildVars, uiVars, contextVars>>

\* what a step of the UI leaves alone
outsideUi == <<callVars, buildVars, apiVars, contextVars>>

\* what a step of a context leaves alone
outsideContexts == <<callVars, buildVars, apiVars, uiVars>>

vars == <<callVars, buildVars, apiVars, uiVars, contextVars>>

(***************************************************************************)
(* Bounds of the model.                                                    *)
(***************************************************************************)
\* longest input over the two-symbol alphabets (runs, short runs, sequences)
MaxLen == 7
\* longest input over the four-symbol alphabets, every order of symbols
MaxWide == 3
\* most occurrences of one symbol in the inputs built from four runs
MaxCount == 3
\* longest input made of one repeated symbol
MaxRepeat == 10
\* longest input in which no two neighbouring symbols are equal
MaxStretch == 256
\* longest code of the prefix-free codes a code table is compared with
MaxCodeLength == 4
\* longest file posted to the server
MaxFile == 3
\* longest input of a call made from one of two contexts at once
MaxCall == 2

(***************************************************************************)
(* JavaScript values.                                                      *)
(***************************************************************************)
JsNull == [kind |-> "null"]

JsString(s) == [kind |-> "string", d |-> s]

JsArray(a) == [kind |-> "array", d |-> a]

At(s, i) == s[i + 1]

Has(obj, field) == field \in DOMAIN obj

\* !v  for the values the core is called with: null, undefined and "" are
\* falsy, every array and every object is truthy
Falsy(v) == v.kind = "null" \/ (v.kind = "string" /\ Len(v.d) = 0)

\* Array.isArray(v)
IsArray(v) == v.kind = "array"

\* completion of a call: a returned value or a thrown Error
Return(v) == [ok |-> TRUE, value |-> v]

Throw(name, message) == [ok |-> FALSE, error |-> [name |-> name, message |-> message]]

NoError == [name |-> "none", message |-> ""]

(***************************************************************************)
(* rle.js: rleCompress / rleDecompress                                     *)
(***************************************************************************)
RECURSIVE CountRun(_, _, _)
\* the inner while loop that counts consecutive identical elements
CountRun(d, i, count) ==
    IF i + count < Len(d) /\ At(d, i + count) = At(d, i)
    THEN CountRun(d, i, count + 1)
    ELSE count

\* the check reduced to  !data
EmptyInputFalsyOnly(v) == Falsy(v)

\* the input check shared by the three encoders
EmptyInput(v) ==
    \/ Falsy(v)
    \/ (v.kind = "string" /\ Len(v.d) = 0)
    \/ (IsArray(v) /\ Len(v.d) = 0)

\* the test written  count > 2
RleItemFromThree(d, i, count) ==
    IF count > 2
    THEN [type |-> "run", element |-> At(d, i), count |-> count]
    ELSE [type |-> "single", element |-> At(d, i)]

RleItem(d, i, count) ==
    IF count > 1
    THEN [type |-> "run", element |-> At(d, i), count |-> count]
    ELSE [type |-> "single", element |-> At(d, i)]

RECURSIVE RleScan(_, _, _)
\* the outer while loop of rleCompress
RleScan(d, i, compressed) ==
    IF i < Len(d)
    THEN LET count == CountRun(d, i, 1)
         IN  RleScan(d, i + count, Append(compressed, RleItem(d, i, count)))
    ELSE compressed

rleCompress(v) ==
    IF EmptyInput(v)
    THEN Throw("Error", "Input data is empty")
    ELSE Return([kind |-> "object",
                 compressed |-> RleScan(v.d, 0, <<>>),
                 originalLength |-> Len(v.d),
                 isArrayData |-> IsArray(v)])

\* the loop bound written  i <= item.count
RepeatOnceMore(item) ==
    IF Has(item, "count") /\ item.count >= 0
    THEN [k \in 1..(item.count + 1) |-> item.element]
    ELSE <<>>

\* for (let i = 0; i < item.count; i++) decompressed.push(item.element);
\* a missing count compares false at once
Repeat(item) ==
    IF Has(item, "count") /\ item.count > 0
    THEN [k \in 1..item.count |-> item.element]
    ELSE <<>>

RECURSIVE RleExpandSkipping(_, _, _)
\* the loop without its else branch: an item of another type is passed over
RleExpandSkipping(items, k, decompressed) ==
    IF k > Len(items) THEN Return(decompressed)
    ELSE LET item == items[k]
         IN  IF item.type = "run"
             THEN RleExpandSkipping(items, k + 1, decompressed \o Repeat(item))
             ELSE IF item.type = "single"
             THEN RleExpandSkipping(items, k + 1, Append(decompressed, item.element))
             ELSE RleExpandSkipping(items, k + 1, decompressed)

RECURSIVE RleExpand(_, _, _)
\* the for-of loop of rleDecompress over the items
RleExpand(items, k, decompressed) ==
    IF k > Len(items) THEN Return(decompressed)
    ELSE LET item == items[k]
         IN  IF item.type = "run"
             THEN RleExpand(items, k + 1, decompressed \o Repeat(item))
             ELSE IF item.type = "single"
             THEN RleExpand(items, k + 1, Append(decompressed, item.element))
             ELSE Throw("Error", "Invalid compressed item type")

\* return decompressed  /  return decompressed.join('')
Reassemble(p, decompressed) ==
    IF Has(p, "isArrayData") /\ p.isArrayData
    THEN JsArray(decompressed)
    ELSE JsString(decompressed)

\* the decoder without its comparison with originalLength
LengthUnchecked(p, decompressed) == Return(Reassemble(p, decompressed))

LengthChecked(p, decompressed) ==
    IF ~Has(p, "originalLength") \/ Len(decompressed) # p.originalLength
    THEN Throw("Error", "Decompression failed: length mismatch")
    ELSE Return(Reassemble(p, decompressed))

\* !compressedData || !compressedData.compressed
InvalidRleFormat(p) == Falsy(p) \/ ~Has(p, "compressed")

rleDecompress(p) ==
    IF InvalidRleFormat(p)
    THEN Throw("Error", "Invalid compressed data format")
    ELSE IF ~Has(p, "compressed")
    THEN Throw("TypeError", "compressed is not iterable")
    ELSE LET r == RleExpand(p.compressed, 1, <<>>)
         IN  IF r.ok THEN LengthChecked(p, r.value) ELSE r

(***************************************************************************)
(* rle.js: analyzeRLEEffectiveness                                         *)
(***************************************************************************)
RECURSIVE Gcd(_, _)
Gcd(a, b) == IF b = 0 THEN a ELSE Gcd(b, a % b)

\* a / b  on non-negative integers, kept as a fraction in lowest terms;
\* 0 / 0 is NaN and n / 0 is Infinity
Quotient(a, b) ==
    IF b = 0 THEN (IF a = 0 THEN [nan |-> TRUE] ELSE [infinity |-> TRUE])
    ELSE [num |-> a \div Gcd(a, b), den |-> b \div Gcd(a, b)]

\* the body of  if (count > 1)
CountedRun(stats, count) ==
    IF count > 1
    THEN [runs |-> stats.runs + 1,
          totalRunLength |-> stats.totalRunLength + count,
          maxRunLength |-> IF count > stats.maxRunLength THEN count
                           ELSE stats.maxRunLength]
    ELSE stats

RECURSIVE AnalyzeScan(_, _, _)
\* the outer while loop of analyzeRLEEffectiveness
AnalyzeScan(d, i, stats) ==
    IF i < Len(d)
    THEN AnalyzeScan(d, i + CountRun(d, i, 1), CountedRun(stats, CountRun(d, i, 1)))
    ELSE stats

\* the object returned with the test written  runs >= length * 0.1
EffectivenessFromTenth(stats, length) ==
    [kind |-> "object",
     totalRuns |-> stats.runs,
     averageRunLength |-> IF stats.runs > 0
                          THEN Quotient(stats.totalRunLength, stats.runs)
                          ELSE Quotient(0, 1),
     maxRunLength |-> stats.maxRunLength,
     compressionPotential |-> Quotient(stats.totalRunLength, length),
     recommendRLE |-> 10 * stats.runs >= length \/ stats.maxRunLength > 4]

\* the object returned;  runs > length * 0.1  is  10 * runs > length
Effectiveness(stats, length) ==
    [kind |-> "object",
     totalRuns |-> stats.runs,
     averageRunLength |-> IF stats.runs > 0
                          THEN Quotient(stats.totalRunLength, stats.runs)
                          ELSE Quotient(0, 1),
     maxRunLength |-> stats.maxRunLength,
     compressionPotential |-> Quotient(stats.totalRunLength, length),
     recommendRLE |-> 10 * stats.runs > length \/ stats.maxRunLength > 4]

\* there is no input check: data.length of null throws a TypeError
analyzeRLEEffectiveness(v) ==
    IF v.kind = "null"
    THEN Throw("TypeError", "Cannot read properties of null (reading 'length')")
    ELSE Return(Effectiveness(
             AnalyzeScan(v.d, 0, [runs |-> 0, totalRunLength |-> 0, maxRunLength |-> 0]),
             Len(v.d)))

(***************************************************************************)
(* rle.js: rleCompressAdvanced / rleDecompressAdvanced                     *)
(***************************************************************************)
\* while (i < length && sequence.length < 255)
MaxSequenceLength == 255

\* The inner loop of the sequence branch runs up to 255 times, so it is
\* written in closed form: from position i it stops at the first position j
\* where the input ends, the sequence is full, or the element begins a run
\* (nextCount >= 2, the break), having pushed the elements in between.
CollectStops(d, i, sequence) ==
    {j \in i..Len(d) : \/ j >= Len(d)
                        \/ Len(sequence) + (j - i) >= MaxSequenceLength
                        \/ CountRun(d, j, 1) >= 2}

\* the position at which the loop is left
CollectEnd(d, i, sequence) ==
    CHOOSE j \in CollectStops(d, i, sequence) :
        \A m \in CollectStops(d, i, sequence) : j <= m

\* the inner loop with  i++  placed before the break
CollectSinglesSkipping(d, i, sequence) ==
    LET j == CollectEnd(d, i, sequence)
    IN  [sequence |-> sequence \o [k \in 1..(j - i) |-> At(d, i + k - 1)],
         i |-> IF j < Len(d) /\ Len(sequence) + (j - i) < MaxSequenceLength
               THEN j + 1 ELSE j]

\* the loop condition written  sequence.length <= 255
CollectSinglesOneMore(d, i, sequence) ==
    LET stops == {j \in i..Len(d) : \/ j >= Len(d)
                                     \/ Len(sequence) + (j - i) > MaxSequenceLength
                                     \/ CountRun(d, j, 1) >= 2}
        j == CHOOSE j \in stops : \A m \in stops : j <= m
    IN  [sequence |-> sequence \o [k \in 1..(j - i) |-> At(d, i + k - 1)], i |-> j]

\* the inner loop that gathers non-repeating elements; yields the sequence
\* and the position reached
CollectSingles(d, i, sequence) ==
    LET j == CollectEnd(d, i, sequence)
    IN  [sequence |-> sequence \o [k \in 1..(j - i) |-> At(d, i + k - 1)], i |-> j]

RECURSIVE AdvancedScanFromThree(_, _, _)
\* the outer loop with the first test written  count >= 3
AdvancedScanFromThree(d, i, compressed) ==
    IF i < Len(d)
    THEN LET count == CountRun(d, i, 1)
         IN  IF count >= 3
             THEN AdvancedScanFromThree(d, i + count, Append(compressed,
                      [type |-> "run", element |-> At(d, i), count |-> count]))
             ELSE IF count >= 2
             THEN AdvancedScanFromThree(d, i + count, Append(compressed,
                      [type |-> "short_run", element |-> At(d, i), count |-> count]))
             ELSE LET c == CollectSingles(d, i + 1, <<At(d, i)>>)
                  IN  AdvancedScanFromThree(d, c.i, Append(compressed,
                          [type |-> "sequence", elements |-> c.sequence]))
    ELSE compressed

RECURSIVE AdvancedScan(_, _, _)
\* the outer while loop of rleCompressAdvanced
AdvancedScan(d, i, compressed) ==
    IF i < Len(d)
    THEN LET count == CountRun(d, i, 1)
         IN  IF count >= 4
             THEN AdvancedScan(d, i + count, Append(compressed,
                      [type |-> "run", element |-> At(d, i), count |-> count]))
             ELSE IF count >= 2
             THEN AdvancedScan(d, i + count, Append(compressed,
                      [type |-> "short_run", element |-> At(d, i), count |-> count]))
             ELSE LET c == CollectSingles(d, i + 1, <<At(d, i)>>)
                  IN  AdvancedScan(d, c.i, Append(compressed,
                          [type |-> "sequence", elements |-> c.sequence]))
    ELSE compressed

\* the payload returned without its algorithm property
rleCompressAdvancedUntagged(v) ==
    IF EmptyInput(v)
    THEN Throw("Error", "Input data is empty")
    ELSE Return([kind |-> "object",
                 compressed |-> AdvancedScan(v.d, 0, <<>>),
                 originalLength |-> Len(v.d),
                 isArrayData |-> IsArray(v)])

rleCompressAdvanced(v) ==
    IF EmptyInput(v)
    THEN Throw("Error", "Input data is empty")
    ELSE Return([kind |-> "object",
                 compressed |-> AdvancedScan(v.d, 0, <<>>),
                 originalLength |-> Len(v.d),
                 isArrayData |-> IsArray(v),
                 algorithm |-> "advanced_rle"])

RECURSIVE AdvancedExpandOwnTypes(_, _, _)
\* the switch without its case 'single': only the item types that
\* rleCompressAdvanced itself emits
AdvancedExpandOwnTypes(items, k, decompressed) ==
    IF k > Len(items) THEN Return(decompressed)
    ELSE LET item == items[k]
         IN  CASE item.type \in {"run", "short_run"} ->
                     AdvancedExpandOwnTypes(items, k + 1, decompressed \o Repeat(item))
               [] item.type = "sequence" ->
                     IF Has(item, "elements")
                     THEN AdvancedExpandOwnTypes(items, k + 1,
                                                 decompressed \o item.elements)
                     ELSE Throw("TypeError", "item.elements is not iterable")
               [] OTHER ->
                     Throw("Error", "Invalid compressed item type")

RECURSIVE AdvancedExpand(_, _, _)
\* the for-of loop and switch of rleDecompressAdvanced
AdvancedExpand(items, k, decompressed) ==
    IF k > Len(items) THEN Return(decompressed)
    ELSE LET item == items[k]
         IN  CASE item.type \in {"run", "short_run"} ->
                     AdvancedExpand(items, k + 1, decompressed \o Repeat(item))
               [] item.type = "sequence" ->
                     IF Has(item, "elements")
                     THEN AdvancedExpand(items, k + 1, decompressed \o item.elements)
                     ELSE Throw("TypeError", "item.elements is not iterable")
               [] item.type = "single" ->
                     AdvancedExpand(items, k + 1, Append(decompressed, item.element))
               [] OTHER ->
                     Throw("Error", "Invalid compressed item type")

rleDecompressAdvanced(p) ==
    IF InvalidRleFormat(p)
    THEN Throw("Error", "Invalid compressed data format")
    ELSE IF ~Has(p, "compressed")
    THEN Throw("TypeError", "compressed is not iterable")
    ELSE LET r == AdvancedExpand(p.compressed, 1, <<>>)
         IN  IF r.ok THEN LengthChecked(p, r.value) ELSE r

(***************************************************************************)
(* Strings and numbers.  A string is its sequence of UTF-16 code units;    *)
(* "0" is 48, "1" is 49, "9" is 57.                                        *)
(***************************************************************************)
RECURSIVE Digits(_)
\* Number.prototype.toString() of a non-negative integer, also the way a
\* number becomes a property key
Digits(n) ==
    IF n < 10 THEN <<48 + n>> ELSE Digits(n \div 10) \o <<48 + (n % 10)>>

IsDigit(c) == c \in 48..57

RECURSIVE ParseDigits(_, _, _, _)
\* the value of the longest prefix of s (from position k) made of digits of
\* the radix; acc = -1 while no digit was read, and -1 stands for NaN
ParseDigits(s, k, radix, acc) ==
    IF k <= Len(s) /\ s[k] \in 48..(47 + radix)
    THEN ParseDigits(s, k + 1, radix, (IF acc < 0 THEN 0 ELSE acc * radix) + (s[k] - 48))
    ELSE acc

\* parseInt(string) on a string without white space, sign or "0x"
ParseInt(s) == ParseDigits(s, 1, 10, -1)

\* parseInt(string, 2)
ParseBinary(s) == ParseDigits(s, 1, 2, -1)

RECURSIVE ToBinary(_)
\* Number.prototype.toString(2)
ToBinary(n) ==
    IF n < 2 THEN <<48 + n>> ELSE ToBinary(n \div 2) \o <<48 + (n % 2)>>

RECURSIVE PadStart(_, _)
\* String.prototype.padStart(8, '0')
PadStart(s, width) == IF Len(s) >= width THEN s ELSE PadStart(<<48>> \o s, width)

RECURSIVE PadEnd(_, _)
\* String.prototype.padEnd(8, '0')
PadEnd(s, width) == IF Len(s) >= width THEN s ELSE PadEnd(Append(s, 48), width)

\* String.prototype.slice(from, to) with 0 <= from, 0 <= to
Slice(s, from, to) ==
    LET hi == IF to > Len(s) THEN Len(s) ELSE to
    IN  IF from >= hi THEN <<>> ELSE SubSeq(s, from + 1, hi)

IsHighSurrogate(c) == c \in 55296..56319

IsLowSurrogate(c) == c \in 56320..57343

RECURSIVE CodePoints(_, _, _)
\* for (const char of data) over a string: one string per code point, a
\* surrogate pair being one character of two code units
CodePoints(s, k, acc) ==
    IF k > Len(s) THEN acc
    ELSE IF IsHighSurrogate(s[k]) /\ k < Len(s) /\ IsLowSurrogate(s[k + 1])
    THEN CodePoints(s, k + 2, Append(acc, <<s[k], s[k + 1]>>))
    ELSE CodePoints(s, k + 1, Append(acc, <<s[k]>>))

\* the property key a value is converted to
PropertyKey(v) ==
    IF v.kind = "string" THEN v.d ELSE <<110, 117, 108, 108>>

\* the property keys that the loops over the input use, in input order
SymbolKeys(v) ==
    IF IsArray(v)
    THEN [k \in 1..Len(v.d) |-> Digits(v.d[k])]
    ELSE CodePoints(v.d, 1, <<>>)

(***************************************************************************)
(* huffman.js: HuffmanNode, MinHeap                                        *)
(***************************************************************************)
HuffmanNode(char, freq, left, right) ==
    [kind |-> "node", char |-> char, freq |-> freq, left |-> left, right |-> right]

\* isLeaf testing the right child alone
isLeafRightOnly(node) == node.right.kind = "null"

isLeaf(node) == node.left.kind = "null" /\ node.right.kind = "null"

getParentIndex(index) == (index - 1) \div 2

getLeftChildIndex(index) == 2 * index + 1

getRightChildIndex(index) == 2 * index + 2

swap(heap, index1, index2) ==
    [heap EXCEPT ![index1 + 1] = heap[index2 + 1], ![index2 + 1] = heap[index1 + 1]]

\* heapifyUp with `if` in place of `while`: one comparison with the parent
heapifyUpOnce(heap, index) ==
    IF index > 0 /\ At(heap, getParentIndex(index)).freq > At(heap, index).freq
    THEN swap(heap, getParentIndex(index), index)
    ELSE heap

RECURSIVE heapifyUp(_, _)
heapifyUp(heap, index) ==
    IF index > 0
    THEN LET parentIndex == getParentIndex(index)
         IN  IF At(heap, parentIndex).freq <= At(heap, index).freq
             THEN heap
             ELSE heapifyUp(swap(heap, parentIndex, index), parentIndex)
    ELSE heap

insert(heap, node) == heapifyUp(Append(heap, node), Len(heap))

RECURSIVE heapifyDownLeft(_, _)
\* heapifyDown that never looks at the right child
heapifyDownLeft(heap, index) ==
    IF getLeftChildIndex(index) < Len(heap)
    THEN LET smallestIndex == getLeftChildIndex(index)
         IN  IF At(heap, index).freq <= At(heap, smallestIndex).freq
             THEN heap
             ELSE heapifyDownLeft(swap(heap, index, smallestIndex), smallestIndex)
    ELSE heap

RECURSIVE heapifyDown(_, _)
heapifyDown(heap, index) ==
    IF getLeftChildIndex(index) < Len(heap)
    THEN LET leftChildIndex == getLeftChildIndex(index)
             rightChildIndex == getRightChildIndex(index)
             smallestIndex ==
                 IF /\ rightChildIndex < Len(heap)
                    /\ At(heap, rightChildIndex).freq < At(heap, leftChildIndex).freq
                 THEN rightChildIndex
                 ELSE leftChildIndex
         IN  IF At(heap, index).freq <= At(heap, smallestIndex).freq
             THEN heap
             ELSE heapifyDown(swap(heap, index, smallestIndex), smallestIndex)
    ELSE heap

\* extractMin without its call of heapifyDown
extractMinUnsifted(heap) ==
    IF Len(heap) = 0 THEN [min |-> JsNull, heap |-> heap]
    ELSE IF Len(heap) = 1 THEN [min |-> heap[1], heap |-> <<>>]
    ELSE LET last == heap[Len(heap)]
             popped == SubSeq(heap, 1, Len(heap) - 1)
         IN  [min |-> heap[1], heap |-> [popped EXCEPT ![1] = last]]

\* yields the extracted node and the heap left behind
extractMin(heap) ==
    IF Len(heap) = 0 THEN [min |-> JsNull, heap |-> heap]
    ELSE IF Len(heap) = 1 THEN [min |-> heap[1], heap |-> <<>>]
    ELSE LET last == heap[Len(heap)]
             popped == SubSeq(heap, 1, Len(heap) - 1)
         IN  [min |-> heap[1],
              heap |-> heapifyDown([popped EXCEPT ![1] = last], 0)]

(***************************************************************************)
(* huffman.js: buildFrequencyTable, buildHuffmanTree, buildCodes           *)
(***************************************************************************)
\* freqTable[key] = (freqTable[key] || 0) + 1 on an object kept as the
\* sequence of its properties in creation order
CountKey(table, key) ==
    IF \E k \in 1..Len(table) : table[k].key = key
    THEN [k \in 1..Len(table) |->
             IF table[k].key = key
             THEN [key |-> key, freq |-> table[k].freq + 1]
             ELSE table[k]]
    ELSE Append(table, [key |-> key, freq |-> 1])

RECURSIVE CountKeys(_, _, _)
CountKeys(keys, k, table) ==
    IF k > Len(keys) THEN table
    ELSE CountKeys(keys, k + 1, CountKey(table, keys[k]))

buildFrequencyTable(v) == CountKeys(SymbolKeys(v), 1, <<>>)

\* a property key that is an array index: the canonical decimal string of
\* an integer below 2^32 - 1; the keys of byte values and of single
\* characters have at most three digits, so the length decides
IsArrayIndex(key) ==
    /\ Len(key) >= 1
    /\ Len(key) <= 9
    /\ \A k \in 1..Len(key) : IsDigit(key[k])
    /\ (Len(key) = 1 \/ key[1] # 48)

RECURSIVE AscendingIndices(_, _)
\* the properties whose keys are array indices, in ascending numeric order
AscendingIndices(table, todo) ==
    IF todo = {} THEN <<>>
    ELSE LET k == CHOOSE x \in todo :
                     \A y \in todo : ParseInt(table[x].key) <= ParseInt(table[y].key)
         IN  <<table[k]>> \o AscendingIndices(table, todo \ {k})

IsNamedProperty(e) == ~IsArrayIndex(e.key)

\* Object.entries(freqTable): array-index keys in ascending order, then the
\* other keys in creation order
ObjectEntries(table) ==
    AscendingIndices(table, {k \in 1..Len(table) : IsArrayIndex(table[k].key)})
        \o SelectSeq(table, IsNamedProperty)

RECURSIVE InsertLeaves(_, _, _)
\* for (const [char, freq] of Object.entries(freqTable)) heap.insert(leaf)
InsertLeaves(entries, k, heap) ==
    IF k > Len(entries) THEN heap
    ELSE InsertLeaves(entries, k + 1,
             insert(heap, HuffmanNode(JsString(entries[k].key), entries[k].freq,
                                      JsNull, JsNull)))

\* the pass with the merged node given the frequency of its left child
MergeStepLeftFreq(heap) ==
    LET l == extractMin(heap)
        r == extractMin(l.heap)
        merged == HuffmanNode(JsNull, l.min.freq, l.min, r.min)
    IN  insert(r.heap, merged)

\* one pass of the body of  while (heap.size() > 1)
MergeStep(heap) ==
    LET l == extractMin(heap)
        r == extractMin(l.heap)
        merged == HuffmanNode(JsNull, l.min.freq + r.min.freq, l.min, r.min)
    IN  insert(r.heap, merged)

RECURSIVE MergeLoop(_)
MergeLoop(heap) == IF Len(heap) > 1 THEN MergeLoop(MergeStep(heap)) ELSE heap

buildHuffmanTree(freqTable) ==
    LET heap == InsertLeaves(ObjectEntries(freqTable), 1, <<>>)
    IN  IF Len(heap) = 1
        THEN LET node == extractMin(heap).min
             IN  HuffmanNode(JsNull, node.freq, node, JsNull)
        ELSE extractMin(MergeLoop(heap)).min

RECURSIVE traverseSameBit(_, _)
\* traverse appending '0' on both edges
traverseSameBit(node, code) ==
    IF isLeaf(node)
    THEN <<[key |-> PropertyKey(node.char), code |-> code]>>
    ELSE (IF node.left.kind # "null" THEN traverseSameBit(node.left, Append(code, 48)) ELSE <<>>)
         \o (IF node.right.kind # "null" THEN traverseSameBit(node.right, Append(code, 48)) ELSE <<>>)

RECURSIVE traverse(_, _)
\* the assignments codes[node.char] = code, in the order they are made
traverse(node, code) ==
    IF isLeaf(node)
    THEN <<[key |-> PropertyKey(node.char), code |-> code]>>
    ELSE (IF node.left.kind # "null" THEN traverse(node.left, Append(code, 48)) ELSE <<>>)
         \o (IF node.right.kind # "null" THEN traverse(node.right, Append(code, 49)) ELSE <<>>)

CodeAssignments(root) ==
    IF isLeaf(root)
    THEN <<[key |-> PropertyKey(root.char), code |-> <<48>>]>>
    ELSE traverse(root, <<>>)

\* the codes object: each key holds the code assigned to it last
buildCodes(root) ==
    LET a == CodeAssignments(root)
        last(key) == CHOOSE k \in 1..Len(a) :
                        /\ a[k].key = key
                        /\ \A j \in (k + 1)..Len(a) : a[j].key # key
    IN  [key \in {a[k].key : k \in 1..Len(a)} |-> a[last(key)].code]

(***************************************************************************)
(* huffman.js: serializeTree / deserializeTree                             *)
(***************************************************************************)
RECURSIVE serializeTree(_)
serializeTree(node) ==
    IF node.kind = "null" THEN JsNull
    ELSE IF isLeaf(node)
    THEN [kind |-> "object", type |-> "leaf", char |-> node.char, freq |-> node.freq]
    ELSE [kind |-> "object", type |-> "internal", freq |-> node.freq,
          left |-> serializeTree(node.left), right |-> serializeTree(node.right)]

\* reading a field that may be missing (undefined)
Field(obj, field) == IF Has(obj, field) THEN obj[field] ELSE JsNull

RECURSIVE deserializeTreeMirrored(_)
\* the two children read from each other's field
deserializeTreeMirrored(serialized) ==
    IF serialized.kind = "null" THEN JsNull
    ELSE IF serialized.type = "leaf"
    THEN HuffmanNode(serialized.char, serialized.freq, JsNull, JsNull)
    ELSE HuffmanNode(JsNull, serialized.freq,
                     deserializeTreeMirrored(Field(serialized, "right")),
                     deserializeTreeMirrored(Field(serialized, "left")))

RECURSIVE deserializeTree(_)
deserializeTree(serialized) ==
    IF serialized.kind = "null" THEN JsNull
    ELSE IF serialized.type = "leaf"
    THEN HuffmanNode(serialized.char, serialized.freq, JsNull, JsNull)
    ELSE HuffmanNode(JsNull, serialized.freq,
                     deserializeTree(Field(serialized, "left")),
                     deserializeTree(Field(serialized, "right")))

(***************************************************************************)
(* huffman.js: huffmanCompress / huffmanDecompress                         *)
(***************************************************************************)
\* codes[key]; a key without a code reads undefined, appended as "undefined"
CodeOf(codes, key) ==
    IF key \in DOMAIN codes THEN codes[key]
    ELSE <<117, 110, 100, 101, 102, 105, 110, 101, 100>>

RECURSIVE EncodeBits(_, _, _, _)
\* encodedBits += codes[symbol] for every symbol of the input
EncodeBits(codes, keys, k, encodedBits) ==
    IF k > Len(keys) THEN encodedBits
    ELSE EncodeBits(codes, keys, k + 1, encodedBits \o CodeOf(codes, keys[k]))

RECURSIVE PackBytesPadStart(_, _, _)
\* the last group of bits filled up on its left
PackBytesPadStart(encodedBits, i, encodedBytes) ==
    IF i < Len(encodedBits)
    THEN PackBytesPadStart(encodedBits, i + 8,
             Append(encodedBytes, ParseBinary(PadStart(Slice(encodedBits, i, i + 8), 8))))
    ELSE encodedBytes

RECURSIVE PackBytes(_, _, _)
\* for (let i = 0; i < encodedBits.length; i += 8)
PackBytes(encodedBits, i, encodedBytes) ==
    IF i < Len(encodedBits)
    THEN PackBytes(encodedBits, i + 8,
             Append(encodedBytes, ParseBinary(PadEnd(Slice(encodedBits, i, i + 8), 8))))
    ELSE encodedBytes

\* the code table that huffmanCompress builds for its input; an input that
\* passes the check without symbols leaves no root, and buildCodes then
\* fails on root.isLeaf()
HuffmanRoot(v) == buildHuffmanTree(buildFrequencyTable(v))

HuffmanCodes(v) ==
    IF EmptyInput(v) \/ HuffmanRoot(v).kind = "null"
    THEN <<>>
    ELSE buildCodes(HuffmanRoot(v))

huffmanCompress(v) ==
    IF EmptyInput(v)
    THEN Throw("Error", "Input data is empty")
    ELSE LET root == HuffmanRoot(v)
         IN  IF root.kind = "null"
             THEN Throw("TypeError", "Cannot read properties of null (reading 'isLeaf')")
             ELSE LET encodedBits ==
                          EncodeBits(buildCodes(root), SymbolKeys(v), 1, <<>>)
                  IN  Return([kind |-> "object",
                              encodedData |-> PackBytes(encodedBits, 0, <<>>),
                              tree |-> serializeTree(root),
                              originalLength |-> Len(v.d),
                              paddingBits |-> (8 - (Len(encodedBits) % 8)) % 8,
                              isArrayData |-> IsArray(v)])

RECURSIVE UnpackBits(_, _, _)
\* bitString += byte.toString(2).padStart(8, '0') for every byte
UnpackBits(encodedData, k, bitString) ==
    IF k > Len(encodedData) THEN bitString
    ELSE UnpackBits(encodedData, k + 1,
             bitString \o PadStart(ToBinary(encodedData[k]), 8))

\* the decoder keeping the padding bits
RemovePaddingNever(p, bitString) == bitString

\* if (paddingBits > 0) bitString = bitString.slice(0, -paddingBits)
RemovePadding(p, bitString) ==
    IF Has(p, "paddingBits") /\ p.paddingBits > 0
    THEN Slice(bitString, 0, IF p.paddingBits >= Len(bitString)
                             THEN 0 ELSE Len(bitString) - p.paddingBits)
    ELSE bitString

RECURSIVE DecodeBits(_, _, _, _, _)
\* for (const bit of bitString): the walk from the root, emitting at leaves
DecodeBits(root, bitString, k, current, decoded) ==
    IF k > Len(bitString) THEN Return(decoded)
    ELSE IF isLeaf(root)
    THEN DecodeBits(root, bitString, k + 1, current, Append(decoded, root.char))
    ELSE LET next == IF bitString[k] = 48 THEN current.left ELSE current.right
         IN  IF next.kind = "null"
             THEN Throw("TypeError", "Cannot read properties of null (reading 'isLeaf')")
             ELSE IF isLeaf(next)
             THEN DecodeBits(root, bitString, k + 1, root, Append(decoded, next.char))
             ELSE DecodeBits(root, bitString, k + 1, next, decoded)

RECURSIVE Join(_, _, _)
\* decoded.join(''): null and undefined elements join as the empty string
Join(decoded, k, acc) ==
    IF k > Len(decoded) THEN acc
    ELSE Join(decoded, k + 1,
              acc \o (IF decoded[k].kind = "string" THEN decoded[k].d ELSE <<>>))

\* decoded.map(char => parseInt(char)): parseInt(null) is NaN
ParseSymbol(char) == IF char.kind = "string" THEN ParseInt(char.d) ELSE -1

\* the conversion back to the original format; no comparison with
\* originalLength is made
HuffmanOutput(p, decoded) ==
    IF Has(p, "isArrayData") /\ p.isArrayData
    THEN JsArray([k \in 1..Len(decoded) |-> ParseSymbol(decoded[k])])
    ELSE JsString(Join(decoded, 1, <<>>))

\* the check without its test of encodedData
InvalidHuffmanFormatTreeOnly(p) ==
    \/ Falsy(p)
    \/ ~Has(p, "tree")
    \/ p.tree.kind = "null"

\* !compressedData || !compressedData.encodedData || !compressedData.tree
InvalidHuffmanFormat(p) ==
    \/ Falsy(p)
    \/ ~Has(p, "encodedData")
    \/ ~Has(p, "tree")
    \/ p.tree.kind = "null"

huffmanDecompress(p) ==
    IF InvalidHuffmanFormat(p)
    THEN Throw("Error", "Invalid compressed data format")
    ELSE IF ~Has(p, "encodedData")
    THEN Throw("TypeError", "encodedData is not iterable")
    ELSE LET root == deserializeTree(Field(p, "tree"))
             bitString == RemovePadding(p, UnpackBits(p.encodedData, 1, <<>>))
         IN  IF root.kind = "null" /\ Len(bitString) > 0
             THEN Throw("TypeError", "Cannot read properties of null (reading 'isLeaf')")
             ELSE LET r == DecodeBits(root, bitString, 1, root, <<>>)
                  IN  IF r.ok THEN Return(HuffmanOutput(p, r.value)) ELSE r

(***************************************************************************)
(* The callers' inputs.                                                    *)
(***************************************************************************)
SeqsUpTo(S, n) == UNION {[1..m -> S] : m \in 0..n}

\* "a", "1", a high and a low surrogate; the bytes 255, 10, 7, 0
TextAlphabet == <<97, 49, 55357, 56832>>

ByteAlphabet == <<255, 10, 7, 0>>

Runs(alphabet, counts) ==
    [k \in 1..counts[1] |-> alphabet[1]] \o [k \in 1..counts[2] |-> alphabet[2]]
        \o [k \in 1..counts[3] |-> alphabet[3]] \o [k \in 1..counts[4] |-> alphabet[4]]

Contents(alphabet) ==
    SeqsUpTo({alphabet[1], alphabet[2]}, MaxLen)
        \cup SeqsUpTo({alphabet[k] : k \in 1..4}, MaxWide)
        \cup {Runs(alphabet, c) : c \in [1..4 -> 0..MaxCount]}
        \cup {[k \in 1..n |-> alphabet[1]] : n \in 1..MaxRepeat}

\* the inputs of the documented scenarios: "aaaabbbcc" and "abcabc"
ScenarioInputs ==
    {JsString(<<97, 97, 97, 97, 98, 98, 98, 99, 99>>),
     JsString(<<97, 98, 99, 97, 98, 99>>)}

Inputs ==
    {JsNull}
        \cup ScenarioInputs
        \cup {JsString(s) : s \in Contents(TextAlphabet)}
        \cup {JsArray(a) : a \in Contents(ByteAlphabet)}

\* no call of buildHuffmanTree is followed
BuildIdle ==
    /\ freqs = <<>>
    /\ minHeap = <<>>
    /\ merges = 0
    /\ built = [kind |-> "null"]
    /\ at = "idle"

\* the reply to a request that was not sent
NoReply == [status |-> 0, body |-> [error |-> ""]]

\* no request is sent to the server
ApiIdle ==
    /\ posted = [file |-> [kind |-> "null"], algorithm |-> ""]
    /\ compressReply = NoReply
    /\ decompressReply = NoReply
    /\ via = "none"

\* no fetch is in flight
NoFetch == [handler |-> "none", response |-> NoReply]

\* the component as useState initialises it
UiIdle ==
    /\ file = [kind |-> "null"]
    /\ fileMetadata = [kind |-> "null"]
    /\ selectedAlgorithm = "huffman"
    /\ isProcessing = FALSE
    /\ compressionStats = [kind |-> "null"]
    /\ compressedData = [kind |-> "null"]
    /\ decompressedData = [kind |-> "null"]
    /\ error = ""
    /\ pending = NoFetch
    /\ settled = [handler |-> "none", reached |-> FALSE]

\* no context has called the core
ContextsIdle ==
    /\ invoked = <<>>
    /\ locals = <<>>

(***************************************************************************)
(* The calls.                                                              *)
(***************************************************************************)
Init ==
    /\ data \in Inputs
    /\ payload = JsNull
    /\ alteration = "none"
    /\ result = JsNull
    /\ thrown = NoError
    /\ pc = "ready"
    /\ encoder = "none"
    /\ decoder = "none"
    /\ codeTable = <<>>
    /\ BuildIdle
    /\ ApiIdle
    /\ UiIdle
    /\ ContextsIdle

\* what a call leaves with its caller
ValueOf(r) == IF r.ok THEN r.value ELSE JsNull

ErrorOf(r) == IF r.ok THEN NoError ELSE r.error

HuffmanCompress ==
    /\ pc = "ready"
    /\ pc' = "encoded"
    /\ encoder' = "huffmanCompress"
    /\ payload' = ValueOf(huffmanCompress(data))
    /\ thrown' = ErrorOf(huffmanCompress(data))
    /\ codeTable' = HuffmanCodes(data)
    /\ UNCHANGED <<data, alteration, result, decoder>>
    /\ UNCHANGED outsideCalls

RleCompress ==
    /\ pc = "ready"
    /\ pc' = "encoded"
    /\ encoder' = "rleCompress"
    /\ payload' = ValueOf(rleCompress(data))
    /\ thrown' = ErrorOf(rleCompress(data))
    /\ UNCHANGED <<data, alteration, result, decoder, codeTable>>
    /\ UNCHANGED outsideCalls

RleCompressAdvanced ==
    /\ pc = "ready"
    /\ pc' = "encoded"
    /\ encoder' = "rleCompressAdvanced"
    /\ payload' = ValueOf(rleCompressAdvanced(data))
    /\ thrown' = ErrorOf(rleCompressAdvanced(data))
    /\ UNCHANGED <<data, alteration, result, decoder, codeTable>>
    /\ UNCHANGED outsideCalls

\* The payload may reach the decoder changed: one number set to a
\* neighbouring value, one field or the whole payload missing, one item
\* retagged.  Items keep the fields of their shape.
CanAlter == pc = "encoded" /\ thrown = NoError

WithoutField(obj, field) == [f \in (DOMAIN obj) \ {field} |-> obj[f]]

AlterOriginalLength ==
    /\ CanAlter
    /\ \E n \in {payload.originalLength - 1, payload.originalLength + 1} :
           payload' = [payload EXCEPT !.originalLength = n]
    /\ pc' = "altered"
    /\ alteration' = "originalLength"
    /\ UNCHANGED <<data, result, thrown, encoder, decoder, codeTable>>
    /\ UNCHANGED outsideCalls

AlterPaddingBits ==
    /\ CanAlter
    /\ Has(payload, "paddingBits")
    /\ \E n \in {payload.paddingBits - 1, payload.paddingBits + 1} \cap 0..7 :
           payload' = [payload EXCEPT !.paddingBits = n]
    /\ pc' = "altered"
    /\ alteration' = "paddingBits"
    /\ UNCHANGED <<data, result, thrown, encoder, decoder, codeTable>>
    /\ UNCHANGED outsideCalls

DropField ==
    /\ CanAlter
    /\ \E f \in {"encodedData", "tree", "compressed"} \cap DOMAIN payload :
           /\ payload' = WithoutField(payload, f)
           /\ alteration' = f
    /\ pc' = "altered"
    /\ UNCHANGED <<data, result, thrown, encoder, decoder, codeTable>>
    /\ UNCHANGED outsideCalls

DropPayload ==
    /\ CanAlter
    /\ payload' = JsNull
    /\ pc' = "altered"
    /\ alteration' = "payload"
    /\ UNCHANGED <<data, result, thrown, encoder, decoder, codeTable>>
    /\ UNCHANGED outsideCalls

\* an item may be retagged in a payload whose lengths were changed as well
AlterItemType ==
    /\ \/ CanAlter
       \/ (pc = "altered" /\ alteration = "originalLength")
    /\ Has(payload, "compressed")
    /\ \E k \in 1..Len(payload.compressed) :
           payload' = [payload EXCEPT !.compressed[k].type = "bogus"]
    /\ pc' = "altered"
    /\ alteration' = "type"
    /\ UNCHANGED <<data, result, thrown, encoder, decoder, codeTable>>
    /\ UNCHANGED outsideCalls

AlterItemCount ==
    /\ CanAlter
    /\ Has(payload, "compressed")
    /\ \E k \in 1..Len(payload.compressed) :
           /\ Has(payload.compressed[k], "count")
           /\ \E n \in {payload.compressed[k].count - 1, payload.compressed[k].count + 1} :
                  payload' = [payload EXCEPT !.compressed[k].count = n]
    /\ pc' = "altered"
    /\ alteration' = "count"
    /\ UNCHANGED <<data, result, thrown, encoder, decoder, codeTable>>
    /\ UNCHANGED outsideCalls

CanDecode == pc \in {"encoded", "altered"} /\ thrown = NoError

HuffmanDecompress ==
    /\ CanDecode
    /\ pc' = "decoded"
    /\ decoder' = "huffmanDecompress"
    /\ result' = ValueOf(huffmanDecompress(payload))
    /\ thrown' = ErrorOf(huffmanDecompress(payload))
    /\ UNCHANGED <<data, payload, alteration, encoder, codeTable>>
    /\ UNCHANGED outsideCalls

RleDecompress ==
    /\ CanDecode
    /\ pc' = "decoded"
    /\ decoder' = "rleDecompress"
    /\ result' = ValueOf(rleDecompress(payload))
    /\ thrown' = ErrorOf(rleDecompress(payload))
    /\ UNCHANGED <<data, payload, alteration, encoder, codeTable>>
    /\ UNCHANGED outsideCalls

RleDecompressAdvanced ==
    /\ CanDecode
    /\ pc' = "decoded"
    /\ decoder' = "rleDecompressAdvanced"
    /\ result' = ValueOf(rleDecompressAdvanced(payload))
    /\ thrown' = ErrorOf(rleDecompressAdvanced(payload))
    /\ UNCHANGED <<data, payload, alteration, encoder, codeTable>>
    /\ UNCHANGED outsideCalls

Next ==
    \/ HuffmanCompress
    \/ RleCompress
    \/ RleCompressAdvanced
    \/ AlterOriginalLength
    \/ AlterPaddingBits
    \/ DropField
    \/ DropPayload
    \/ AlterItemType
    \/ AlterItemCount
    \/ HuffmanDecompress
    \/ RleDecompress
    \/ RleDecompressAdvanced

Spec == Init /\ [][Next]_vars

(***************************************************************************)
(* The adaptive codec, also on inputs that fill a sequence item.           *)
(***************************************************************************)
\* n symbols of which no two neighbours are equal: the byte values in turn
Ramp(n) == [k \in 1..n |-> (k - 1) % 256]

\* a stretch about as long as the longest sequence item, then a run of the
\* next symbol (of length 0 to 4)
LongContents ==
    {Ramp(n) \o [k \in 1..c |-> n % 256] :
        n \in (MaxSequenceLength - 1)..MaxStretch, c \in 0..4}

LongInputs ==
    {JsString(s) : s \in LongContents} \cup {JsArray(a) : a \in LongContents}

InitAdvanced ==
    /\ data \in Inputs \cup LongInputs
    /\ payload = JsNull
    /\ alteration = "none"
    /\ result = JsNull
    /\ thrown = NoError
    /\ pc = "ready"
    /\ encoder = "none"
    /\ decoder = "none"
    /\ codeTable = <<>>
    /\ BuildIdle
    /\ ApiIdle
    /\ UiIdle
    /\ ContextsIdle

NextAdvanced ==
    \/ RleCompressAdvanced
    \/ AlterOriginalLength
    \/ AlterItemCount
    \/ RleDecompressAdvanced

SpecAdvanced == InitAdvanced /\ [][NextAdvanced]_vars

(***************************************************************************)
(* buildHuffmanTree followed step by step, as huffmanCompress calls it.    *)
(***************************************************************************)
\* no codec call is followed, apart from the input it was given
CallsIdle ==
    /\ payload = JsNull
    /\ alteration = "none"
    /\ result = JsNull
    /\ thrown = NoError
    /\ pc = "idle"
    /\ encoder = "none"
    /\ decoder = "none"
    /\ codeTable = <<>>

\* const freqTable = buildFrequencyTable(data); buildHuffmanTree(freqTable)
InitBuild ==
    /\ data \in {v \in Inputs : ~EmptyInput(v)}
    /\ freqs = buildFrequencyTable(data)
    /\ minHeap = <<>>
    /\ merges = 0
    /\ built = JsNull
    /\ at = "called"
    /\ CallsIdle
    /\ ApiIdle
    /\ UiIdle
    /\ ContextsIdle

\* the for loop: one leaf per entry of the table
InsertLeafNodes ==
    /\ at = "called"
    /\ \E entries \in {ObjectEntries(freqs)} :
           minHeap' = InsertLeaves(entries, 1, <<>>)
    /\ at' = "inserted"
    /\ UNCHANGED <<freqs, merges, built>>
    /\ UNCHANGED outsideBuild

\* if (heap.size() === 1): the only leaf is wrapped and returned
WrapSingleLeaf ==
    /\ at = "inserted"
    /\ Len(minHeap) = 1
    /\ built' = HuffmanNode(JsNull, extractMin(minHeap).min.freq,
                            extractMin(minHeap).min, JsNull)
    /\ minHeap' = extractMin(minHeap).heap
    /\ at' = "returned"
    /\ UNCHANGED <<freqs, merges>>
    /\ UNCHANGED outsideBuild

\* one pass of  while (heap.size() > 1)
MergeTwoNodes ==
    /\ at \in {"inserted", "merging"}
    /\ Len(minHeap) > 1
    /\ minHeap' = MergeStep(minHeap)
    /\ merges' = merges + 1
    /\ at' = "merging"
    /\ UNCHANGED <<freqs, built>>
    /\ UNCHANGED outsideBuild

\* return heap.extractMin()
ReturnRoot ==
    /\ IF at = "inserted" THEN Len(minHeap) = 0
       ELSE at = "merging" /\ Len(minHeap) <= 1
    /\ built' = extractMin(minHeap).min
    /\ minHeap' = extractMin(minHeap).heap
    /\ at' = "returned"
    /\ UNCHANGED <<freqs, merges>>
    /\ UNCHANGED outsideBuild

NextBuild ==
    \/ InsertLeafNodes
    \/ WrapSingleLeaf
    \/ MergeTwoNodes
    \/ ReturnRoot

SpecBuild == InitBuild /\ [][NextBuild]_vars

(***************************************************************************)
(* A MinHeap used on its own: any sequence of insert and extractMin.  The  *)
(* heap array is minHeap, the value extractMin returned last is built.     *)
(***************************************************************************)
MaxHeap == 4
MaxFreq == 3

HeapNodes ==
    {HuffmanNode(JsString(<<c>>), f, JsNull, JsNull) : c \in {97, 98}, f \in 1..MaxFreq}

\* new MinHeap()
InitHeap ==
    /\ BuildIdle
    /\ data = JsNull
    /\ CallsIdle
    /\ ApiIdle
    /\ UiIdle
    /\ ContextsIdle

HeapInsert ==
    \E node \in HeapNodes :
        /\ Len(minHeap) < MaxHeap
        /\ minHeap' = insert(minHeap, node)
        /\ at' = "inserted"
        /\ UNCHANGED <<freqs, merges, built>>
        /\ UNCHANGED <<callVars, apiVars, uiVars, contextVars>>

HeapExtractMin ==
    /\ built' = extractMin(minHeap).min
    /\ minHeap' = extractMin(minHeap).heap
    /\ at' = "extracted"
    /\ UNCHANGED <<freqs, merges>>
    /\ UNCHANGED <<callVars, apiVars, uiVars, contextVars>>

NextHeap ==
    \/ HeapInsert
    \/ HeapExtractMin

SpecHeap == InitHeap /\ [][NextHeap]_vars

(***************************************************************************)
(* server.js (unnamed/part_000 from line 280): helpers and handlers.       *)
(*                                                                         *)
(* A Buffer is [kind |-> "bytes", d |-> <<byte values>>].  A string that   *)
(* JSON.stringify produced is kept as [kind |-> "json", of |-> value]:     *)
(* the encoders' payloads hold only numbers, strings, booleans, null,      *)
(* arrays and plain objects, on which JSON.parse inverts JSON.stringify.   *)
(* A Buffer holding the bytes of such a text (a saved .json) is kept as    *)
(* that text.  A file name is [stem, ext], ext "" when it has no dot; a    *)
(* MIME type is [major, minor].                                            *)
(***************************************************************************)
JsBytes(b) == [kind |-> "bytes", d |-> b]

JsonStringify(v) == [kind |-> "json", of |-> v]

\* JSON.parse: the other strings of the model are decoded file contents
\* over FileAlphabet, which holds no digit, quote, bracket, brace or letter
\* of true / false / null, so none of them is a JSON text
JsonParse(text) ==
    IF text.kind = "json" THEN Return(text.of)
    ELSE Throw("SyntaxError", "Unexpected token")

RECURSIVE Utf8Decode(_, _, _)
\* buffer.toString('utf8'): an ASCII byte is its own code unit, a lead byte
\* 0xC2..0xDF followed by a continuation byte gives a code unit below 0x800,
\* and any other byte outside 0xE0..0xF4 is invalid and gives U+FFFD.  The
\* file bytes of the model hold no lead byte 0xE0..0xF4 (three- and
\* four-byte sequences).
Utf8Decode(bytes, k, acc) ==
    IF k > Len(bytes) THEN acc
    ELSE IF bytes[k] < 128
    THEN Utf8Decode(bytes, k + 1, Append(acc, bytes[k]))
    ELSE IF /\ bytes[k] >= 194 /\ bytes[k] <= 223
            /\ k < Len(bytes)
            /\ bytes[k + 1] >= 128 /\ bytes[k + 1] <= 191
    THEN Utf8Decode(bytes, k + 2,
                    Append(acc, (bytes[k] - 192) * 64 + (bytes[k + 1] - 128)))
    ELSE Utf8Decode(bytes, k + 1, Append(acc, 65533))

\* the catch branch is never taken: toString('utf8') does not throw
bufferToString(buffer) ==
    IF buffer.kind = "json" THEN buffer
    ELSE JsString(Utf8Decode(buffer.d, 1, <<>>))

\* binaryBytes / sample.length > 0.3  over at most 512 sampled bytes; for an
\* empty buffer 0 / 0 is NaN and the comparison is false
isBinaryData(buffer) ==
    LET sample == SubSeq(buffer.d, 1, IF Len(buffer.d) < 512 THEN Len(buffer.d) ELSE 512)
        binaryBytes == Cardinality({k \in 1..Len(sample) :
                           \/ sample[k] = 0
                           \/ (sample[k] < 32 /\ sample[k] \notin {9, 10, 13})})
    IN  10 * binaryBytes > 3 * Len(sample)

RECURSIVE Base64Encode(_, _, _)
\* Buffer.toString('base64'): three bytes become four 6-bit digits; the
\* digits are kept as numbers 0..63 and the padding '=' as 64
Base64Encode(bytes, k, acc) ==
    IF k > Len(bytes) THEN acc
    ELSE LET b2 == IF k + 1 <= Len(bytes) THEN bytes[k + 1] ELSE 0
             b3 == IF k + 2 <= Len(bytes) THEN bytes[k + 2] ELSE 0
             n == bytes[k] * 65536 + b2 * 256 + b3
         IN  Base64Encode(bytes, k + 3,
                 acc \o <<n \div 262144,
                          (n \div 4096) % 64,
                          IF k + 1 <= Len(bytes) THEN (n \div 64) % 64 ELSE 64,
                          IF k + 2 <= Len(bytes) THEN n % 64 ELSE 64>>)

\* Buffer.from(array): every element is taken modulo 256
BufferFrom(a) == [k \in 1..Len(a) |-> a[k] % 256]

FileName(stem, ext) == [stem |-> stem, ext |-> ext]

Mime(major, minor) == [major |-> major, minor |-> minor]

Status(code, body) == [status |-> code, body |-> body]

ValidAlgorithm(body) == Has(body, "algorithm") /\ body.algorithm \in {"huffman", "rle"}

\* app.post('/api/compress'); the sizes, the ratio and the processing time
\* of stats are not modelled
PostCompress(req) ==
    IF req.file.kind = "null"
    THEN Status(400, [error |-> "No file uploaded"])
    ELSE IF ~ValidAlgorithm(req.body)
    THEN Status(400, [error |-> "Invalid or missing algorithm"])
    ELSE LET fileBuffer == req.file.buffer
             isArrayDataForCompress == isBinaryData(fileBuffer)
             inputData == IF isArrayDataForCompress
                          THEN JsArray(fileBuffer.d)
                          ELSE bufferToString(fileBuffer)
             r == IF req.body.algorithm = "huffman"
                  THEN huffmanCompress(inputData)
                  ELSE rleCompress(inputData)
         IN  IF r.ok
             THEN Status(200, [success |-> TRUE,
                               compressedData |-> JsonStringify(r.value),
                               stats |-> [originalSize |-> Len(fileBuffer.d),
                                          algorithm |-> req.body.algorithm,
                                          fileName |-> req.file.originalname,
                                          fileType |-> req.file.mimetype,
                                          originalIsArray |-> isArrayDataForCompress]])
             ELSE Status(500, [error |-> "Compression failed",
                               details |-> r.error.message])

\* the part of the decompression handler that shapes the output: an array
\* travels as base64, a string as it is; the MIME type is guessed from the
\* extension of fileName
DecompressedBody(decompressedResult, fileName) ==
    IF IsArray(decompressedResult)
    THEN [success |-> TRUE,
          decompressedData |-> [kind |-> "base64",
                                d |-> Base64Encode(BufferFrom(decompressedResult.d), 1, <<>>)],
          decompressedType |-> IF fileName.ext \in {"bmp", "png", "jpg", "jpeg"}
                               THEN Mime("image", fileName.ext)
                               ELSE Mime("application", "octet-stream"),
          decompressedFileName |-> fileName]
    ELSE [success |-> TRUE,
          decompressedData |-> decompressedResult,
          decompressedType |-> IF fileName.ext = "js" THEN Mime("text", "javascript")
                               ELSE IF fileName.ext = "json" THEN Mime("application", "json")
                               ELSE IF fileName.ext \in {"txt", "csv", "html", "css"}
                               THEN Mime("text", fileName.ext)
                               ELSE Mime("text", "plain"),
          decompressedFileName |-> fileName]

\* app.post('/api/decompress'): an uploaded file is preferred to the body
PostDecompress(req) ==
    LET fromFile == req.file.kind # "null"
        fromBody == Has(req.body, "compressedData") /\ ~Falsy(req.body.compressedData)
        parsed == IF fromFile THEN JsonParse(bufferToString(req.file.buffer))
                  ELSE JsonParse(req.body.compressedData)
        fileName == IF fromFile THEN req.file.originalname
                    ELSE FileName("decompressed_file", "")
    IN  IF ~fromFile /\ ~fromBody
        THEN Status(400, [error |->
                 "No compressed data (file or body) provided for decompression."])
        ELSE IF ~parsed.ok
        THEN Status(400, [error |-> IF fromFile
                                    THEN "Uploaded file is not a valid compressed data JSON format."
                                    ELSE "Invalid compressed data format in body.",
                          details |-> parsed.error.message])
        ELSE IF ~ValidAlgorithm(req.body)
        THEN Status(400, [error |-> "Invalid or missing algorithm for decompression"])
        ELSE LET r == IF req.body.algorithm = "huffman"
                      THEN huffmanDecompress(parsed.value)
                      ELSE rleDecompress(parsed.value)
             IN  IF r.ok
                 THEN Status(200, DecompressedBody(r.value, fileName))
                 ELSE Status(500, [error |-> "Decompression failed",
                                   details |-> r.error.message])

(***************************************************************************)
(* What a client writes to disk from a decompression response             *)
(* (CompressionPortal.jsx, unnamed/part_001: downloadFile).                *)
(***************************************************************************)
RECURSIVE Base64Decode(_, _, _)
\* atob: four 6-bit digits become three bytes, fewer before padding
Base64Decode(digits, k, acc) ==
    IF k + 3 > Len(digits) THEN acc
    ELSE LET d3 == IF digits[k + 2] = 64 THEN 0 ELSE digits[k + 2]
             d4 == IF digits[k + 3] = 64 THEN 0 ELSE digits[k + 3]
             n == digits[k] * 262144 + digits[k + 1] * 4096 + d3 * 64 + d4
         IN  Base64Decode(digits, k + 4,
                 acc \o <<n \div 65536>>
                     \o (IF digits[k + 2] = 64 THEN <<>> ELSE <<(n \div 256) % 256>>)
                     \o (IF digits[k + 3] = 64 THEN <<>> ELSE <<n % 256>>))

RECURSIVE Utf8Encode(_, _, _)
\* new Blob([string]): the string is written as UTF-8; the strings of the
\* model hold no surrogates
Utf8Encode(units, k, acc) ==
    IF k > Len(units) THEN acc
    ELSE IF units[k] < 128
    THEN Utf8Encode(units, k + 1, Append(acc, units[k]))
    ELSE IF units[k] < 2048
    THEN Utf8Encode(units, k + 1,
                    acc \o <<192 + (units[k] \div 64), 128 + (units[k] % 64)>>)
    ELSE Utf8Encode(units, k + 1,
                    acc \o <<224 + (units[k] \div 4096),
                             128 + ((units[k] \div 64) % 64),
                             128 + (units[k] % 64)>>)

\* downloadFile(data, filename, type): base64 is decoded for image/* and
\* application/octet-stream (a server response pairs these types with
\* base64 data only), any other data is written as text
downloadFile(content, type) ==
    IF /\ type.major = "image" \/ type = Mime("application", "octet-stream")
       /\ content.kind = "base64"
    THEN Base64Decode(content.d, 1, <<>>)
    ELSE Utf8Encode(content.d, 1, <<>>)

(***************************************************************************)
(* A client of the two endpoints: it posts a file to /api/compress and     *)
(* hands the compressedData of the response back to /api/decompress, in    *)
(* the body of the request or saved and uploaded as a file.                *)
(***************************************************************************)
\* "A", line feed, NUL, an invalid byte, and the two bytes of U+00E9
FileAlphabet == {65, 10, 0, 255, 195, 169}

UploadNames ==
    {[name |-> FileName("notes", "txt"), type |-> Mime("text", "plain")],
     [name |-> FileName("photo", "png"), type |-> Mime("image", "png")]}

Upload(n, bytes) ==
    [kind |-> "file", originalname |-> n.name, mimetype |-> n.type,
     buffer |-> JsBytes(bytes)]

Uploads == {Upload(n, b) : n \in UploadNames, b \in SeqsUpTo(FileAlphabet, MaxFile)}

InitApi ==
    /\ posted \in [file : Uploads \cup {JsNull}, algorithm : {"huffman", "rle", "zip"}]
    /\ compressReply = NoReply
    /\ decompressReply = NoReply
    /\ via = "none"
    /\ data = JsNull
    /\ CallsIdle
    /\ BuildIdle
    /\ UiIdle
    /\ ContextsIdle

\* POST /api/compress with the file and the algorithm as form fields
ApiCompress ==
    /\ compressReply = NoReply
    /\ compressReply' = PostCompress([file |-> posted.file,
                                      body |-> [algorithm |-> posted.algorithm]])
    /\ UNCHANGED <<posted, decompressReply, via>>
    /\ UNCHANGED outsideApi

\* POST /api/decompress with compressedData in a JSON body
ApiDecompressBody ==
    /\ compressReply.status = 200
    /\ decompressReply = NoReply
    /\ decompressReply' =
           PostDecompress([file |-> JsNull,
                           body |-> [compressedData |-> compressReply.body.compressedData,
                                     algorithm |-> posted.algorithm,
                                     originalIsArray |->
                                         compressReply.body.stats.originalIsArray]])
    /\ via' = "body"
    /\ UNCHANGED <<posted, compressReply>>
    /\ UNCHANGED outsideApi

\* POST /api/decompress with compressedData saved as a .json file and uploaded
ApiDecompressFile ==
    /\ compressReply.status = 200
    /\ decompressReply = NoReply
    /\ decompressReply' =
           PostDecompress([file |-> [kind |-> "file",
                                     originalname |-> FileName("compressed", "json"),
                                     mimetype |-> Mime("application", "json"),
                                     buffer |-> compressReply.body.compressedData],
                           body |-> [algorithm |-> posted.algorithm]])
    /\ via' = "file"
    /\ UNCHANGED <<posted, compressReply>>
    /\ UNCHANGED outsideApi

NextApi ==
    \/ ApiCompress
    \/ ApiDecompressBody
    \/ ApiDecompressFile

SpecApi == InitApi /\ [][NextApi]_vars

(***************************************************************************)
(* CompressionPortal.jsx (unnamed/part_001): the state of the component    *)
(* and its handlers.  An async handler is two steps: the click, which runs *)
(* the handler up to its fetch, and the settling of the fetch, which runs  *)
(* the rest of it.  The server keeps no state, so its response is worked   *)
(* out when the request is sent.  The File of the browser and the file     *)
(* multer hands to the server are one record.                              *)
(***************************************************************************)
\* a text, a binary content and a text that is not valid UTF-8
UiContents == {<<65, 65, 10>>, <<0, 0, 255>>, <<255>>}

UiFiles ==
    {Upload(n, b) : n \in UploadNames \cup {[name |-> FileName("tool", "exe"),
                                            type |-> Mime("application", "x-msdownload")]},
                    b \in UiContents}

supportedTypes ==
    {Mime("text", "plain"), Mime("text", "csv"), Mime("text", "html"),
     Mime("text", "css"), Mime("text", "javascript"), Mime("application", "json"),
     Mime("image", "bmp"), Mime("image", "png"), Mime("image", "jpg"),
     Mime("image", "jpeg")}

supportedExtensions ==
    {"txt", "csv", "html", "css", "js", "json", "bmp", "png", "jpg", "jpeg"}

\* fetch rejected: the request did not reach the server
FetchFailed == [status |-> 0, body |-> [error |-> "Failed to fetch"]]

InitUi ==
    /\ UiIdle
    /\ ContextsIdle
    /\ data = JsNull
    /\ CallsIdle
    /\ BuildIdle
    /\ ApiIdle

\* handleFileUpload; the file input is never disabled
HandleFileUpload ==
    \E uploadedFile \in UiFiles :
        /\ error' = IF /\ uploadedFile.mimetype \notin supportedTypes
                       /\ uploadedFile.originalname.ext \notin supportedExtensions
                    THEN "Unsupported file type. Please upload text files, JSON, CSS, JavaScript, or common image formats."
                    ELSE ""
        /\ compressionStats' = JsNull
        /\ compressedData' = JsNull
        /\ decompressedData' = JsNull
        /\ IF /\ uploadedFile.mimetype \notin supportedTypes
              /\ uploadedFile.originalname.ext \notin supportedExtensions
           THEN /\ file' = JsNull
                /\ fileMetadata' = JsNull
           ELSE /\ file' = uploadedFile
                /\ fileMetadata' = [kind |-> "metadata",
                                    name |-> uploadedFile.originalname,
                                    size |-> Len(uploadedFile.buffer.d),
                                    type |-> uploadedFile.mimetype]
        /\ UNCHANGED <<selectedAlgorithm, isProcessing, pending, settled>>
        /\ UNCHANGED outsideUi

\* onChange of the algorithm radio buttons, never disabled
SelectAlgorithm ==
    \E key \in {"huffman", "rle"} :
        /\ key # selectedAlgorithm
        /\ selectedAlgorithm' = key
        /\ UNCHANGED <<file, fileMetadata, isProcessing, compressionStats,
                       compressedData, decompressedData, error, pending, settled>>
        /\ UNCHANGED outsideUi

\* setIsProcessing(false) as the last statement of the try block: skipped
\* when the response is an error or the fetch fails
ProcessingAfterTry(response) == response.status # 200

\* finally { setIsProcessing(false) }: runs whatever the response was, and
\* after the return inside the try block as well
ProcessingAfter(response) == FALSE

\* handleCompress up to its fetch; the button is disabled={!file || isProcessing}
ClickCompress ==
    \E reached \in BOOLEAN :
        /\ ~(file = JsNull \/ isProcessing)
        /\ isProcessing' = TRUE
        /\ error' = ""
        /\ decompressedData' = JsNull
        /\ compressedData' = JsNull
        /\ pending' = [handler |-> "compress",
                       response |-> IF reached
                                    THEN PostCompress([file |-> file,
                                             body |-> [algorithm |-> selectedAlgorithm]])
                                    ELSE FetchFailed]
        /\ UNCHANGED <<file, fileMetadata, selectedAlgorithm, compressionStats, settled>>
        /\ UNCHANGED outsideUi

\* handleCompress from the settling of its fetch to the end of finally
SettleCompress ==
    /\ pending.handler = "compress"
    /\ IF pending.response.status = 200
       THEN /\ compressionStats' = pending.response.body.stats
            /\ compressedData' = pending.response.body.compressedData
            /\ UNCHANGED error
       ELSE /\ error' = pending.response.body.error
            /\ UNCHANGED <<compressionStats, compressedData>>
    /\ isProcessing' = ProcessingAfter(pending.response)
    /\ pending' = NoFetch
    /\ settled' = [handler |-> "compress", reached |-> pending.response # FetchFailed]
    /\ UNCHANGED <<file, fileMetadata, selectedAlgorithm, decompressedData>>
    /\ UNCHANGED outsideUi

\* handleDecompress up to its fetch: the uploaded file is sent when there
\* is one, compressedData in a JSON body otherwise; the button is
\* disabled={(!file && !compressedData) || isProcessing}
ClickDecompress ==
    \E reached \in BOOLEAN :
        /\ ~((file = JsNull /\ compressedData = JsNull) \/ isProcessing)
        /\ isProcessing' = TRUE
        /\ error' = ""
        /\ decompressedData' = JsNull
        /\ pending' = [handler |-> "decompress",
                       response |->
                           IF ~reached THEN FetchFailed
                           ELSE IF file # JsNull
                           THEN PostDecompress([file |-> file,
                                    body |-> [algorithm |-> selectedAlgorithm]])
                           ELSE PostDecompress([file |-> JsNull,
                                    body |-> [compressedData |-> compressedData,
                                              algorithm |-> selectedAlgorithm]])]
        /\ UNCHANGED <<file, fileMetadata, selectedAlgorithm, compressionStats,
                       compressedData, settled>>
        /\ UNCHANGED outsideUi

\* handleDecompress from the settling of its fetch to the end of finally
SettleDecompress ==
    /\ pending.handler = "decompress"
    /\ IF pending.response.status = 200
       THEN /\ decompressedData' = pending.response.body.decompressedData
            /\ fileMetadata' =
                   IF fileMetadata = JsNull
                   THEN [kind |-> "metadata",
                         name |-> pending.response.body.decompressedFileName,
                         type |-> pending.response.body.decompressedType]
                   ELSE [fileMetadata EXCEPT
                            !.name = pending.response.body.decompressedFileName,
                            !.type = pending.response.body.decompressedType]
            /\ UNCHANGED error
       ELSE /\ error' = pending.response.body.error
            /\ UNCHANGED <<decompressedData, fileMetadata>>
    /\ isProcessing' = ProcessingAfter(pending.response)
    /\ pending' = NoFetch
    /\ settled' = [handler |-> "decompress", reached |-> pending.response # FetchFailed]
    /\ UNCHANGED <<file, selectedAlgorithm, compressionStats, compressedData>>
    /\ UNCHANGED outsideUi

\* downloadDecompressed: the name, the type and the bytes of the download
\* that the 'Download Decompressed' button offers
downloadDecompressed ==
    [name |-> [stem |-> fileMetadata.name.stem,
               suffix |-> "_decompressed",
               ext |-> IF fileMetadata.name.ext = "" THEN "bin"
                       ELSE fileMetadata.name.ext],
     type |-> fileMetadata.type,
     bytes |-> downloadFile(decompressedData, fileMetadata.type)]

NextUi ==
    \/ HandleFileUpload
    \/ SelectAlgorithm
    \/ ClickCompress
    \/ SettleCompress
    \/ ClickDecompress
    \/ SettleDecompress

SpecUi == InitUi /\ [][NextUi]_vars

\* a fetch that was started settles: its promise is fulfilled with the
\* server's answer or rejected, and the handler's continuation then runs
SpecUiSettling ==
    /\ InitUi
    /\ [][NextUi]_vars
    /\ WF_vars(SettleCompress)
    /\ WF_vars(SettleDecompress)

(***************************************************************************)
(* Two invocation contexts calling the core at once.  The five functions   *)
(* of rle.js loop over their argument with an index and an accumulator;    *)
(* they advance one pass of their outer loop per step, so that the passes  *)
(* of two calls interleave; the two functions of huffman.js run as one     *)
(* step.  The variables a function declares belong to the call: context c  *)
(* keeps them in locals[Slot(c)].                                          *)
(***************************************************************************)
Contexts == {1, 2}

LoopingFns == {"rleCompress", "rleDecompress", "analyzeRLEEffectiveness",
               "rleCompressAdvanced", "rleDecompressAdvanced"}

WholeFns == {"huffmanCompress", "huffmanDecompress"}

\* the outcome of a call that runs alone
Alone(fn, arg) ==
    CASE fn = "rleCompress" -> rleCompress(arg)
      [] fn = "rleDecompress" -> rleDecompress(arg)
      [] fn = "analyzeRLEEffectiveness" -> analyzeRLEEffectiveness(arg)
      [] fn = "huffmanCompress" -> huffmanCompress(arg)
      [] fn = "huffmanDecompress" -> huffmanDecompress(arg)
      [] fn = "rleCompressAdvanced" -> rleCompressAdvanced(arg)
      [] fn = "rleDecompressAdvanced" -> rleDecompressAdvanced(arg)

CallInputs ==
    {JsNull}
        \cup {JsString(s) : s \in SeqsUpTo({97, 49}, MaxCall)}
        \cup {JsArray(a) : a \in SeqsUpTo({7}, MaxCall)}

\* the payloads an encoder returns and malformed ones: null, a changed
\* originalLength, an unknown type in the first item
PayloadsOf(encoderFn, inputs) ==
    LET valid == {Alone(encoderFn, v).value : v \in {x \in inputs : ~EmptyInput(x)}}
    IN  {JsNull} \cup valid
            \cup {[p EXCEPT !.originalLength = @ + 1] : p \in valid}
            \cup IF encoderFn = "huffmanCompress" THEN {}
                 ELSE {[p EXCEPT !.compressed[1].type = "unknown"] : p \in valid}

CallArgs(fn, inputs) ==
    CASE fn = "huffmanDecompress" -> PayloadsOf("huffmanCompress", inputs)
      [] fn = "rleDecompress" -> PayloadsOf("rleCompress", inputs)
      [] fn = "rleDecompressAdvanced" -> PayloadsOf("rleCompressAdvanced", inputs)
      [] OTHER -> inputs

CallsOf(fns, inputs) ==
    UNION {{[fn |-> fn, arg |-> arg, at |-> "called", outcome |-> JsNull] :
               arg \in CallArgs(fn, inputs)} : fn \in fns}

Calls == CallsOf(LoopingFns \cup WholeFns, CallInputs)

\* where context c keeps the variables its call declares
SlotShared(c) == 1

Slot(c) == c

\* let i = 0, an empty accumulator, zeroed counters
FreshLocals ==
    [i |-> 0, items |-> <<>>,
     stats |-> [runs |-> 0, totalRunLength |-> 0, maxRunLength |-> 0]]

InitContexts ==
    /\ invoked \in [Contexts -> Calls]
    /\ locals = [c \in Contexts |-> FreshLocals]
    /\ data = JsNull
    /\ CallsIdle
    /\ BuildIdle
    /\ ApiIdle
    /\ UiIdle

\* the input check at the head of the function throws
FailsAtEntry(call) ==
    CASE call.fn \in {"rleCompress", "rleCompressAdvanced"} -> EmptyInput(call.arg)
      [] call.fn \in {"rleDecompress", "rleDecompressAdvanced"} -> InvalidRleFormat(call.arg)
      [] call.fn = "analyzeRLEEffectiveness" -> call.arg.kind = "null"

\* the statements before the outer loop: the input check, which may throw,
\* and the declarations
EnterCall ==
    \E c \in DOMAIN invoked :
        /\ invoked[c].at = "called"
        /\ invoked[c].fn \in LoopingFns
        /\ IF FailsAtEntry(invoked[c])
           THEN /\ invoked' = [invoked EXCEPT
                                  ![c].at = "returned",
                                  ![c].outcome = Alone(invoked[c].fn, invoked[c].arg)]
                /\ UNCHANGED locals
           ELSE /\ invoked' = [invoked EXCEPT ![c].at = "looping"]
                /\ locals' = [locals EXCEPT ![Slot(c)] = FreshLocals]
        /\ UNCHANGED outsideContexts

\* the length of what the outer loop of the call runs over
LoopLength(call) ==
    IF call.fn \in {"rleDecompress", "rleDecompressAdvanced"}
    THEN Len(call.arg.compressed)
    ELSE Len(call.arg.d)

\* i += count  and one more
AdvanceOneMore(i, count) == i + count + 1

\* i += count
Advance(i, count) == i + count

\* one pass of the outer loop of an encoder or of the analyzer on the
\* locals l: the locals after it
ScanPass(call, l) ==
    LET d == call.arg.d
        count == CountRun(d, l.i, 1)
    IN  CASE call.fn = "rleCompress" ->
                 [l EXCEPT !.i = Advance(@, count),
                           !.items = Append(@, RleItem(d, l.i, count))]
          [] call.fn = "analyzeRLEEffectiveness" ->
                 [l EXCEPT !.i = Advance(@, count),
                           !.stats = CountedRun(@, count)]
          [] call.fn = "rleCompressAdvanced" ->
                 IF count >= 4
                 THEN [l EXCEPT !.i = Advance(@, count),
                                !.items = Append(@, [type |-> "run",
                                              element |-> At(d, l.i), count |-> count])]
                 ELSE IF count >= 2
                 THEN [l EXCEPT !.i = Advance(@, count),
                                !.items = Append(@, [type |-> "short_run",
                                              element |-> At(d, l.i), count |-> count])]
                 ELSE [l EXCEPT !.i = CollectSingles(d, l.i + 1, <<At(d, l.i)>>).i,
                                !.items = Append(@, [type |-> "sequence",
                                              elements |->
                                    CollectSingles(d, l.i + 1, <<At(d, l.i)>>).sequence])]

\* one pass of the for-of loop of a decoder on the locals l: the locals
\* after it, or the error thrown
ExpandPass(call, l) ==
    LET item == call.arg.compressed[l.i + 1]
    IN  IF \/ item.type = "run"
           \/ item.type = "short_run" /\ call.fn = "rleDecompressAdvanced"
        THEN Return([l EXCEPT !.i = @ + 1, !.items = @ \o Repeat(item)])
        ELSE IF item.type = "single"
        THEN Return([l EXCEPT !.i = @ + 1, !.items = Append(@, item.element)])
        ELSE IF item.type = "sequence" /\ call.fn = "rleDecompressAdvanced"
        THEN IF Has(item, "elements")
             THEN Return([l EXCEPT !.i = @ + 1, !.items = @ \o item.elements])
             ELSE Throw("TypeError", "item.elements is not iterable")
        ELSE Throw("Error", "Invalid compressed item type")

\* one pass of the outer loop
LoopPass ==
    \E c \in DOMAIN invoked :
        LET call == invoked[c]
            l == locals[Slot(c)]
        IN  /\ call.at = "looping"
            /\ l.i < LoopLength(call)
            /\ IF call.fn \in {"rleDecompress", "rleDecompressAdvanced"}
               THEN IF ExpandPass(call, l).ok
                    THEN /\ locals' = [locals EXCEPT ![Slot(c)] = ExpandPass(call, l).value]
                         /\ UNCHANGED invoked
                    ELSE /\ invoked' = [invoked EXCEPT
                                           ![c].at = "returned",
                                           ![c].outcome = ExpandPass(call, l)]
                         /\ UNCHANGED locals
               ELSE /\ locals' = [locals EXCEPT ![Slot(c)] = ScanPass(call, l)]
                    /\ UNCHANGED invoked
            /\ UNCHANGED outsideContexts

\* the statements after the outer loop: what is returned or thrown
AfterLoop(call, l) ==
    CASE call.fn = "rleCompress" ->
             Return([kind |-> "object",
                     compressed |-> l.items,
                     originalLength |-> Len(call.arg.d),
                     isArrayData |-> IsArray(call.arg)])
      [] call.fn = "rleCompressAdvanced" ->
             Return([kind |-> "object",
                     compressed |-> l.items,
                     originalLength |-> Len(call.arg.d),
                     isArrayData |-> IsArray(call.arg),
                     algorithm |-> "advanced_rle"])
      [] call.fn = "analyzeRLEEffectiveness" ->
             Return(Effectiveness(l.stats, Len(call.arg.d)))
      [] OTHER -> LengthChecked(call.arg, l.items)

\* the statements after the outer loop, up to return or throw
LeaveCall ==
    \E c \in DOMAIN invoked :
        /\ invoked[c].at = "looping"
        /\ locals[Slot(c)].i >= LoopLength(invoked[c])
        /\ invoked' = [invoked EXCEPT
                          ![c].at = "returned",
                          ![c].outcome = AfterLoop(invoked[c], locals[Slot(c)])]
        /\ UNCHANGED locals
        /\ UNCHANGED outsideContexts

\* a call of a function of huffman.js, from entry to return or throw
WholeCall ==
    \E c \in DOMAIN invoked :
        /\ invoked[c].at = "called"
        /\ invoked[c].fn \in WholeFns
        /\ invoked' = [invoked EXCEPT
                          ![c].at = "returned",
                          ![c].outcome = Alone(invoked[c].fn, invoked[c].arg)]
        /\ UNCHANGED locals
        /\ UNCHANGED outsideContexts

NextContexts ==
    \/ EnterCall
    \/ LoopPass
    \/ LeaveCall
    \/ WholeCall

SpecContexts == InitContexts /\ [][NextContexts]_vars

(***************************************************************************)
(* The loops of the core followed pass by pass in one call: the outer      *)
(* loops of the five functions of rle.js, and the merge loop of            *)
(* buildHuffmanTree.  A call that was entered runs on until it returns or  *)
(* throws: nothing but its own loop condition stops it.                    *)
(***************************************************************************)
\* one run of two symbols followed by symbols that alternate: n symbols
TenthRun(n) == [k \in 1..n |-> IF k <= 2 THEN 97 ELSE IF k % 2 = 1 THEN 49 ELSE 97]

LoopInputs ==
    Inputs \cup {JsString(TenthRun(n)) : n \in 8..(MaxRepeat + 2)}
           \cup {JsArray(TenthRun(n)) : n \in 8..(MaxRepeat + 2)}

InitLoops ==
    /\ data = JsNull
    /\ CallsIdle
    /\ BuildIdle
    /\ ApiIdle
    /\ UiIdle
    /\ ContextsIdle

\* a caller invokes one of the functions of rle.js on an argument
InvokeCall ==
    /\ invoked = <<>>
    /\ at = "idle"
    /\ invoked' \in [{1} -> CallsOf(LoopingFns, LoopInputs)]
    /\ locals' = [c \in {1} |-> FreshLocals]
    /\ UNCHANGED outsideContexts

\* huffmanCompress reaches its call of buildHuffmanTree
InvokeBuild ==
    /\ invoked = <<>>
    /\ at = "idle"
    /\ data' \in {v \in Inputs : ~EmptyInput(v)}
    /\ freqs' = buildFrequencyTable(data')
    /\ at' = "called"
    /\ UNCHANGED <<minHeap, merges, built>>
    /\ UNCHANGED <<payload, alteration, result, thrown, pc, encoder, decoder, codeTable>>
    /\ UNCHANGED <<apiVars, uiVars, contextVars>>

NextLoops ==
    \/ InvokeCall
    \/ InvokeBuild
    \/ EnterCall
    \/ LoopPass
    \/ LeaveCall
    \/ InsertLeafNodes
    \/ WrapSingleLeaf
    \/ MergeTwoNodes
    \/ ReturnRoot

\* a call that was made keeps running: the engine runs a called function to
\* its return; whether a caller makes a call is left open
SpecLoops ==
    /\ InitLoops
    /\ [][NextLoops]_vars
    /\ WF_vars(EnterCall \/ LoopPass \/ LeaveCall \/ InsertLeafNodes
                   \/ WrapSingleLeaf \/ MergeTwoNodes \/ ReturnRoot)

(***************************************************************************)
(* Properties.                                                             *)
(***************************************************************************)
NonEmptyInput(v) == v.kind \in {"string", "array"} /\ Len(v.d) > 0

\* a decoder has returned or thrown on the unchanged payload of an encoder
RoundTrip(enc, dec) ==
    pc = "decoded" /\ alteration = "none" /\ encoder = enc /\ decoder = dec

Error(message) == [name |-> "Error", message |-> message]

RleDecoders == {"rleDecompress", "rleDecompressAdvanced"}

\* C1: for every non-empty input (string or array of bytes), huffmanCompress
\* returns a payload and huffmanDecompress of that payload returns exactly
\* the input, in the input's domain.
HuffmanRoundTrip ==
    /\ (pc = "encoded" /\ encoder = "huffmanCompress" /\ NonEmptyInput(data))
           => thrown = NoError
    /\ RoundTrip("huffmanCompress", "huffmanDecompress")
           => (thrown = NoError /\ result = data)

\* "abcabc" has been compressed and restored
HuffmanRoundTripWitness ==
    /\ RoundTrip("huffmanCompress", "huffmanDecompress")
    /\ data = JsString(<<97, 98, 99, 97, 98, 99>>)
    /\ Len(payload.encodedData) = 2
    /\ result = data

\* C2: for every non-empty input, rleCompress returns a payload and
\* rleDecompress of that payload returns exactly the input, in the input's
\* domain; "aaaabbbcc" is among the inputs.
RleRoundTrip ==
    /\ (pc = "encoded" /\ encoder = "rleCompress" /\ NonEmptyInput(data))
           => thrown = NoError
    /\ RoundTrip("rleCompress", "rleDecompress")
           => (thrown = NoError /\ result = data)

\* "aaaabbbcc" has been compressed to three items and restored
RleRoundTripWitness ==
    /\ RoundTrip("rleCompress", "rleDecompress")
    /\ data = JsString(<<97, 97, 97, 97, 98, 98, 98, 99, 99>>)
    /\ Len(payload.compressed) = 3
    /\ result = data

\* C3: for every non-empty input, rleCompressAdvanced returns a payload and
\* rleDecompressAdvanced of that payload returns exactly the input, in the
\* input's domain, whatever mixture of runs and sequences it holds.
AdvancedRleRoundTrip ==
    /\ (pc = "encoded" /\ encoder = "rleCompressAdvanced" /\ NonEmptyInput(data))
           => thrown = NoError
    /\ RoundTrip("rleCompressAdvanced", "rleDecompressAdvanced")
           => (thrown = NoError /\ result = data)

\* an array holding a long run, a short run and a sequence has been restored
AdvancedRleRoundTripWitness ==
    /\ RoundTrip("rleCompressAdvanced", "rleDecompressAdvanced")
    /\ data.kind = "array"
    /\ {payload.compressed[k].type : k \in 1..Len(payload.compressed)}
           = {"run", "short_run", "sequence"}
    /\ result = data

\* C4: huffmanDecompress never returns an output whose length differs from
\* the originalLength of the payload it was given.
HuffmanLengthMismatchFails ==
    (pc = "decoded" /\ decoder = "huffmanDecompress" /\ thrown = NoError)
        => (Has(payload, "originalLength") /\ Len(result.d) = payload.originalLength)

\* C5: a decoder given no payload, or a payload without a field it requires
\* (encodedData or tree for huffmanDecompress, compressed for the two RLE
\* decoders), throws "Invalid compressed data format" and returns nothing.
RequiredFieldMissing ==
    \/ payload.kind = "null"
    \/ (decoder = "huffmanDecompress"
            /\ (~Has(payload, "encodedData") \/ ~Has(payload, "tree")))
    \/ (decoder \in RleDecoders /\ ~Has(payload, "compressed"))

MalformedPayloadFails ==
    (pc = "decoded" /\ RequiredFieldMissing)
        => (thrown = Error("Invalid compressed data format") /\ result = JsNull)

\* a Huffman payload that lost its packed bytes has been refused
MalformedPayloadWitness ==
    /\ pc = "decoded"
    /\ decoder = "huffmanDecompress"
    /\ alteration = "encodedData"
    /\ Has(payload, "tree")
    /\ thrown = Error("Invalid compressed data format")

\* the tags each RLE decoder accepts
RecognisedTags(dec) ==
    IF dec = "rleDecompress" THEN {"run", "single"}
    ELSE {"run", "short_run", "sequence", "single"}

HasUnknownTag ==
    /\ Has(payload, "compressed")
    /\ \E k \in 1..Len(payload.compressed) :
           payload.compressed[k].type \notin RecognisedTags(decoder)

\* C6: an RLE decoder given a payload in which some item carries a tag it
\* does not recognise throws "Invalid compressed item type" and returns
\* nothing, whatever the other items and originalLength are.
UnknownItemTypeFails ==
    (pc = "decoded" /\ decoder \in RleDecoders /\ HasUnknownTag)
        => (thrown = Error("Invalid compressed item type") /\ result = JsNull)

\* a payload of several items with a "bogus" item and a changed
\* originalLength has been refused by each RLE decoder's own check
UnknownItemTypeWitness ==
    /\ pc = "decoded"
    /\ decoder = "rleDecompressAdvanced"
    /\ alteration = "type"
    /\ Len(payload.compressed) >= 2
    /\ payload.originalLength # Len(data.d)
    /\ thrown = Error("Invalid compressed item type")

\* the number of symbols the items of a payload stand for
ItemLength(item) ==
    IF item.type = "sequence" THEN Len(item.elements)
    ELSE IF item.type = "single" THEN 1
    ELSE item.count

RECURSIVE ExpandedLength(_, _)
ExpandedLength(items, k) ==
    IF k > Len(items) THEN 0 ELSE ItemLength(items[k]) + ExpandedLength(items, k + 1)

\* C7: an RLE decoder given items that all carry tags it recognises throws
\* "Decompression failed: length mismatch" when their expanded length
\* differs from originalLength, and every output it returns has exactly
\* originalLength symbols.
RleLengthMismatchFails ==
    (pc = "decoded" /\ decoder \in RleDecoders /\ Has(payload, "compressed"))
        => /\ (~HasUnknownTag /\ ExpandedLength(payload.compressed, 1) # payload.originalLength)
                  => (thrown = Error("Decompression failed: length mismatch")
                          /\ result = JsNull)
           /\ thrown = NoError => Len(result.d) = payload.originalLength

\* a payload whose run count was changed has been refused
RleLengthMismatchWitness ==
    /\ pc = "decoded"
    /\ decoder = "rleDecompressAdvanced"
    /\ encoder = "rleCompressAdvanced"
    /\ alteration = "count"
    /\ thrown = Error("Decompression failed: length mismatch")

\* C8: each encoder throws "Input data is empty" and yields no payload when
\* its input is absent, "" or []; for every other input it returns a
\* payload and throws nothing.
EmptyInputFails ==
    pc = "encoded"
        => IF data.kind = "null" \/ Len(data.d) = 0
           THEN thrown = Error("Input data is empty") /\ payload = JsNull
           ELSE thrown = NoError /\ payload.kind = "object"

\* huffmanCompress has refused the empty array
EmptyInputWitness ==
    /\ pc = "encoded"
    /\ encoder = "huffmanCompress"
    /\ data = JsArray(<<>>)
    /\ thrown = Error("Input data is empty")

IsPrefix(s, t) == Len(s) <= Len(t) /\ SubSeq(t, 1, Len(s)) = s

\* the distinct symbols of an input: byte values, or characters
DistinctSymbols(v) ==
    IF IsArray(v)
    THEN {<<v.d[k]>> : k \in 1..Len(v.d)}
    ELSE {SymbolKeys(v)[k] : k \in 1..Len(SymbolKeys(v))}

\* C9: the code table huffmanCompress builds for a non-empty input holds
\* one code for each distinct symbol of the input and no others, and no
\* symbol's code is a prefix of, or equal to, another symbol's code.
CodeTablePrefixFree ==
    (encoder = "huffmanCompress" /\ NonEmptyInput(data))
        => /\ DOMAIN codeTable = {SymbolKeys(data)[k] : k \in 1..Len(SymbolKeys(data))}
           /\ Cardinality(DOMAIN codeTable) = Cardinality(DistinctSymbols(data))
           /\ \A a \in DOMAIN codeTable : \A b \in (DOMAIN codeTable) \ {a} :
                  ~IsPrefix(codeTable[a], codeTable[b])

\* a table of four codes of different lengths has been built
CodeTableWitness ==
    /\ pc = "encoded"
    /\ encoder = "huffmanCompress"
    /\ Cardinality(DOMAIN codeTable) = 4
    /\ \E a \in DOMAIN codeTable : Len(codeTable[a]) = 1
    /\ \E a \in DOMAIN codeTable : Len(codeTable[a]) = 3

\* an input made of occurrences of one symbol
SingleSymbol(v) ==
    /\ NonEmptyInput(v)
    /\ \A k \in 1..Len(SymbolKeys(v)) : SymbolKeys(v)[k] = SymbolKeys(v)[1]

OwnDecoder ==
    \/ RoundTrip("huffmanCompress", "huffmanDecompress")
    \/ RoundTrip("rleCompress", "rleDecompress")
    \/ RoundTrip("rleCompressAdvanced", "rleDecompressAdvanced")

\* C10: for an input of n >= 1 occurrences of one symbol, huffmanCompress
\* gives the symbol a non-empty code and emits at least n bits, and each
\* decoder restores exactly the input from its own encoder's payload.
SingleSymbolRoundTrip ==
    SingleSymbol(data)
        => /\ (pc = "encoded" /\ encoder = "huffmanCompress")
                  => /\ thrown = NoError
                     /\ SymbolKeys(data)[1] \in DOMAIN codeTable
                     /\ Len(codeTable[SymbolKeys(data)[1]]) >= 1
                     /\ 8 * Len(payload.encodedData) - payload.paddingBits
                            >= Len(SymbolKeys(data))
           /\ OwnDecoder => (thrown = NoError /\ result = data)

\* nine or more occurrences of one symbol, packed into two bytes, restored
SingleSymbolWitness ==
    /\ RoundTrip("huffmanCompress", "huffmanDecompress")
    /\ SingleSymbol(data)
    /\ Len(data.d) > 8
    /\ Len(payload.encodedData) = 2
    /\ result = data

\* the positions at which a maximal run of identical elements begins
RunStarts(d) == {k \in 1..Len(d) : k = 1 \/ d[k] # d[k - 1]}

\* the maximal run that begins at position s ends at this position
RunEnd(d, s) ==
    CHOOSE e \in s..Len(d) :
        /\ \A k \in s..e : d[k] = d[s]
        /\ e < Len(d) => d[e + 1] # d[s]

\* the position of the input at which the j-th item of a payload begins
ItemStart(items, j) == 1 + ExpandedLength(SubSeq(items, 1, j - 1), 1)

\* C11: rleCompress emits, in input order, exactly one item per maximal run
\* of identical consecutive symbols: a run item with the run's length as
\* count when the run is longer than 1, otherwise a single item; no two
\* adjacent items carry the same symbol, and originalLength is the input
\* length.
RleItemsAreMaximalRuns ==
    (pc = "encoded" /\ encoder = "rleCompress" /\ NonEmptyInput(data))
        => LET items == payload.compressed
               d == data.d
           IN  /\ payload.originalLength = Len(d)
               /\ Len(items) = Cardinality(RunStarts(d))
               /\ \A j \in 1..Len(items) :
                      LET s == ItemStart(items, j)
                          n == RunEnd(d, s) - s + 1
                      IN  /\ s \in RunStarts(d)
                          /\ items[j] = IF n > 1
                                        THEN [type |-> "run", element |-> d[s], count |-> n]
                                        ELSE [type |-> "single", element |-> d[s]]
               /\ \A j \in 1..(Len(items) - 1) : items[j].element # items[j + 1].element

\* "aaaabbbcc" has been compressed to  run a 4, run b 3, run c 2
RleItemsWitness ==
    /\ pc = "encoded"
    /\ encoder = "rleCompress"
    /\ data = JsString(<<97, 97, 97, 97, 98, 98, 98, 99, 99>>)
    /\ payload.compressed = <<[type |-> "run", element |-> 97, count |-> 4],
                              [type |-> "run", element |-> 98, count |-> 3],
                              [type |-> "run", element |-> 99, count |-> 2]>>
    /\ payload.originalLength = 9

\* the first n symbols of d are a stretch of non-repeating symbols: none
\* equals its neighbour, the n-th included
NonRepeatingStretch(d, n) ==
    /\ Len(d) >= n
    /\ \A k \in 1..(n - 1) : d[k] # d[k + 1]
    /\ Len(d) > n => d[n] # d[n + 1]

\* C12: in every payload of rleCompressAdvanced no sequence item holds more
\* than 255 symbols; when the input begins with 256 non-repeating symbols,
\* the first two items are sequences, the first holding exactly the first
\* 255 symbols and the second beginning with the 256th.
SequenceAtMost255 ==
    (pc = "encoded" /\ encoder = "rleCompressAdvanced" /\ thrown = NoError)
        => LET items == payload.compressed
           IN  /\ \A j \in 1..Len(items) :
                      items[j].type = "sequence" => Len(items[j].elements) <= 255
               /\ NonRepeatingStretch(data.d, 256)
                      => /\ Len(items) >= 2
                         /\ items[1] = [type |-> "sequence",
                                        elements |-> SubSeq(data.d, 1, 255)]
                         /\ items[2].type = "sequence"
                         /\ items[2].elements[1] = data.d[256]

\* the 256 byte values in turn have been compressed to a sequence of 255
\* and a sequence holding the 256th
SequenceSplitWitness ==
    /\ pc = "encoded"
    /\ encoder = "rleCompressAdvanced"
    /\ data = JsArray(Ramp(256))
    /\ Len(payload.compressed) = 2
    /\ Len(payload.compressed[1].elements) = 255
    /\ payload.compressed[2] = [type |-> "sequence", elements |-> <<255>>]

\* an RLE encoder has returned a payload
RlePayloadReturned ==
    /\ pc = "encoded"
    /\ encoder \in {"rleCompress", "rleCompressAdvanced"}
    /\ thrown = NoError

IsSingleRun(d, k) == k \in RunStarts(d) /\ RunEnd(d, k) = k

\* C17: rleCompressAdvanced emits, in input order, one run item (with the
\* run's length as count) per maximal run of length >= 4 and one short_run
\* item per maximal run of length 2 or 3, and gathers the maximal runs of
\* length 1 into sequence items: a sequence holds between 1 and 255
\* symbols, each a run of length 1, and one shorter than 255 ends at the
\* end of the input or before a run of length >= 2.  No other tag occurs,
\* and the items cover the whole input.
AdvancedItemsClassifyRuns ==
    (pc = "encoded" /\ encoder = "rleCompressAdvanced" /\ NonEmptyInput(data))
        => LET items == payload.compressed
               d == data.d
           IN  /\ ExpandedLength(items, 1) = Len(d)
               /\ \A j \in 1..Len(items) :
                      LET s == ItemStart(items, j)
                          n == RunEnd(d, s) - s + 1
                          m == ItemLength(items[j])
                      IN  /\ s \in RunStarts(d)
                          /\ IF n >= 4
                             THEN items[j] = [type |-> "run", element |-> d[s], count |-> n]
                             ELSE IF n >= 2
                             THEN items[j] = [type |-> "short_run", element |-> d[s],
                                              count |-> n]
                             ELSE /\ items[j] = [type |-> "sequence",
                                                 elements |-> SubSeq(d, s, s + m - 1)]
                                  /\ m \in 1..255
                                  /\ \A k \in s..(s + m - 1) : IsSingleRun(d, k)
                                  /\ m < 255 => (s + m > Len(d) \/ ~IsSingleRun(d, s + m))

\* an input of a run of four, a run of two and a single symbol has been
\* compressed to a run, a short_run and a sequence
AdvancedItemsWitness ==
    /\ pc = "encoded"
    /\ encoder = "rleCompressAdvanced"
    /\ data = JsArray(<<255, 255, 255, 255, 10, 10, 255>>)
    /\ payload.compressed = <<[type |-> "run", element |-> 255, count |-> 4],
                              [type |-> "short_run", element |-> 10, count |-> 2],
                              [type |-> "sequence", elements |-> <<255>>]>>

RECURSIVE NodesOf(_)
\* a node and the nodes below it
NodesOf(node) ==
    IF node.kind = "null" THEN {}
    ELSE {node} \cup NodesOf(node.left) \cup NodesOf(node.right)

\* every node buildHuffmanTree holds: in its queue, or returned
TreeNodes ==
    UNION {NodesOf(minHeap[k]) : k \in 1..Len(minHeap)} \cup NodesOf(built)

HasNoChild(n) == n.left.kind = "null" /\ n.right.kind = "null"

\* a leaf carries one symbol of the table, with that symbol's count
LeafOfTable(n) ==
    \E k \in 1..Len(freqs) :
        n.char = JsString(freqs[k].key) /\ n.freq = freqs[k].freq

\* an internal node has two children and the sum of their frequencies
TwoChildrenSummed(n) ==
    /\ n.left.kind = "node"
    /\ n.right.kind = "node"
    /\ n.char = JsNull
    /\ n.freq = n.left.freq + n.right.freq

\* C18 as stated: for every frequency table with at least one symbol, at
\* every step each internal node has exactly two children and the sum of
\* their frequencies, and each leaf carries one symbol with its count.
EveryInternalNodeHasTwoChildren ==
    \A n \in TreeNodes :
        IF HasNoChild(n) THEN LeafOfTable(n) ELSE TwoChildrenSummed(n)

\* C18: for a frequency table with at least two symbols, at every step of
\* buildHuffmanTree each internal node has exactly two children and the sum
\* of their frequencies, and each leaf carries one symbol with that symbol's
\* count; for a table with one symbol the node returned is a wrapper whose
\* only child, the left one, is that symbol's leaf and whose frequency is
\* the leaf's.
TreeNodesWellFormed ==
    \A n \in TreeNodes :
        IF HasNoChild(n) THEN LeafOfTable(n)
        ELSE IF Len(freqs) >= 2 THEN TwoChildrenSummed(n)
        ELSE /\ n = built
             /\ n.char = JsNull
             /\ n.right.kind = "null"
             /\ n.left.kind = "node"
             /\ HasNoChild(n.left)
             /\ n.freq = n.left.freq

\* the third merge of a four-symbol table has joined a leaf and an internal
\* node whose child is internal too
TreeNodesWitness ==
    /\ at = "merging"
    /\ merges = 3
    /\ Len(minHeap) = 1
    /\ \E n \in NodesOf(minHeap[1]) :
           /\ ~HasNoChild(n)
           /\ n # minHeap[1]
           /\ \E c \in {n.left, n.right} : ~HasNoChild(c)

RECURSIVE LeavesOf(_)
\* the symbols at the leaves of a tree, from left to right
LeavesOf(node) ==
    IF node.kind = "null" THEN <<>>
    ELSE IF HasNoChild(node) THEN <<node.char>>
    ELSE LeavesOf(node.left) \o LeavesOf(node.right)

QueuedNodes == {minHeap[k] : k \in 1..Len(minHeap)}

\* a pass of the merge loop joins two queued nodes than which no other
\* queued node has a smaller frequency, and queues their parent in their
\* place
TakesTwoSmallest ==
    \E m \in {minHeap'[k] : k \in 1..Len(minHeap')} :
        /\ m \notin QueuedNodes
        /\ m.left \in QueuedNodes
        /\ m.right \in QueuedNodes
        /\ m.left # m.right
        /\ m.freq = m.left.freq + m.right.freq
        /\ \A x \in QueuedNodes \ {m.left, m.right} :
               x.freq >= m.left.freq /\ x.freq >= m.right.freq
        /\ {minHeap'[k] : k \in 1..Len(minHeap')}
               = (QueuedNodes \ {m.left, m.right}) \cup {m}
        /\ Len(minHeap') = Len(minHeap) - 1

RECURSIVE Total(_, _)
\* the sum of f over the set S
Total(f, S) ==
    IF S = {} THEN 0
    ELSE LET x == CHOOSE y \in S : TRUE
         IN  f[x] + Total(f, S \ {x})

\* how often a symbol occurs in an input
Occurrences(keys, key) == Cardinality({k \in 1..Len(keys) : keys[k] = key})

\* the bits needed for an input when each symbol's code has the given length
EncodedLength(keys, lengths) ==
    Total([key \in DOMAIN lengths |-> Occurrences(keys, key) * lengths[key]],
          DOMAIN lengths)

\* Kraft's inequality: a prefix-free binary code with these code lengths
\* exists exactly when the sum of 2^-length is at most 1
PrefixFreeCodeExists(lengths) ==
    Total([key \in DOMAIN lengths |-> 2 ^ (MaxCodeLength - lengths[key])],
          DOMAIN lengths) <= 2 ^ MaxCodeLength

\* C20: for every input with at least two distinct symbols, the bits
\* huffmanCompress emits (the sum over symbols of frequency times code
\* length) are no more than with any other prefix-free binary code for the
\* same symbols, whatever its code lengths up to MaxCodeLength.
HuffmanCodeOptimal ==
    (/\ pc = "encoded"
     /\ encoder = "huffmanCompress"
     /\ NonEmptyInput(data)
     /\ Cardinality(DistinctSymbols(data)) >= 2)
        => LET keys == SymbolKeys(data)
               emitted == EncodedLength(keys, [key \in DOMAIN codeTable |->
                                                  Len(codeTable[key])])
           IN  /\ 8 * Len(payload.encodedData) - payload.paddingBits = emitted
               /\ \A lengths \in [DOMAIN codeTable -> 1..MaxCodeLength] :
                      PrefixFreeCodeExists(lengths)
                          => emitted <= EncodedLength(keys, lengths)

\* four symbols occurring 3, 3, 1 and 1 times have been encoded in fewer
\* bits than two bits per symbol
HuffmanOptimalWitness ==
    /\ pc = "encoded"
    /\ encoder = "huffmanCompress"
    /\ data = JsArray(<<255, 255, 255, 10, 10, 10, 7, 0>>)
    /\ 8 * Len(payload.encodedData) - payload.paddingBits = 15

\* C14: for every uploaded file and either algorithm, compressing it
\* through POST /api/compress and passing the returned compressedData to
\* POST /api/decompress with the same algorithm returns data that represents
\* exactly the bytes of the original file.
ApiRoundTripRestoresFile ==
    via = "body" =>
        /\ decompressReply.status = 200
        /\ downloadFile(decompressReply.body.decompressedData,
                        decompressReply.body.decompressedType)
               = posted.file.buffer.d

\* C15: in the UI, after a supported file is uploaded and Compress has
\* completed successfully, a click on Decompress that the server answers
\* completes without an error and makes decompressed data available for
\* download under the name and the type (extension) of the original file.
DecompressAfterCompressSucceeds ==
    (/\ settled = [handler |-> "decompress", reached |-> TRUE]
     /\ ~isProcessing
     /\ file # JsNull
     /\ compressedData # JsNull)
        => /\ error = ""
           /\ decompressedData # JsNull
           /\ fileMetadata # JsNull
           /\ downloadDecompressed.name.stem = file.originalname.stem
           /\ downloadDecompressed.name.ext = file.originalname.ext
           /\ downloadDecompressed.type = file.mimetype

TreeSurvivesSerialization ==
    at = "returned" =>
        /\ deserializeTree(serializeTree(built)) = built
        /\ built.kind = "node" =>
               buildCodes(deserializeTree(serializeTree(built))) = buildCodes(built)

\* the wrapper of a single symbol has been returned: a left leaf, no right child
WrapperSerializedWitness ==
    /\ at = "returned"
    /\ built.kind = "node"
    /\ built.right.kind = "null"
    /\ built.left.kind = "node"
    /\ serializeTree(built).type = "internal"
    /\ serializeTree(built).right.kind = "null"
    /\ serializeTree(built).left.type = "leaf"

\* the bits huffmanCompress emits for the input, in emission order
EmittedBits == EncodeBits(codeTable, SymbolKeys(data), 1, <<>>)

\* bit b (0 = most significant) of a byte
BitOfByte(byte, b) == (byte \div (2 ^ (7 - b))) % 2

HuffmanPayloadReturned ==
    /\ encoder = "huffmanCompress"
    /\ alteration = "none"
    /\ payload # JsNull

\* C22: in every payload huffmanCompress returns, paddingBits is in 0..7,
\* the number of packed bytes is the number of code bits divided by 8 and
\* rounded up, 8 x bytes - paddingBits is the number of code bits, every
\* byte holds its 8 bits most significant first in emission order, the
\* padding bits of the last byte are 0, and huffmanDecompress removes
\* exactly paddingBits trailing bits before it decodes.
HuffmanBitsPacked ==
    HuffmanPayloadReturned =>
        /\ payload.paddingBits \in 0..7
        /\ Len(payload.encodedData) = (Len(EmittedBits) + 7) \div 8
        /\ 8 * Len(payload.encodedData) - payload.paddingBits = Len(EmittedBits)
        /\ \A j \in 1..Len(payload.encodedData) : \A b \in 0..7 :
               BitOfByte(payload.encodedData[j], b) =
                   IF 8 * (j - 1) + b + 1 <= Len(EmittedBits)
                   THEN EmittedBits[8 * (j - 1) + b + 1] - 48
                   ELSE 0
        /\ RemovePadding(payload, UnpackBits(payload.encodedData, 1, <<>>)) = EmittedBits

\* a payload of two bytes or more whose last byte is padded has been decoded
HuffmanBitsPackedWitness ==
    /\ HuffmanPayloadReturned
    /\ pc = "decoded"
    /\ decoder = "huffmanDecompress"
    /\ Len(payload.encodedData) >= 2
    /\ payload.paddingBits > 0
    /\ payload.encodedData[Len(payload.encodedData)] > 0

\* the positions at which a maximal run of more than one symbol begins
LongRunStarts(d) == {s \in RunStarts(d) : RunEnd(d, s) > s}

\* the positions that lie in a maximal run of more than one symbol
InLongRun(d) ==
    {k \in 1..Len(d) : \/ (k > 1 /\ d[k] = d[k - 1])
                       \/ (k < Len(d) /\ d[k] = d[k + 1])}

LongestRun(d) ==
    IF LongRunStarts(d) = {} THEN 0
    ELSE CHOOSE n \in 2..Len(d) :
             /\ \E s \in LongRunStarts(d) : RunEnd(d, s) - s + 1 = n
             /\ \A s \in LongRunStarts(d) : RunEnd(d, s) - s + 1 <= n

\* what the claim requires of the object returned for the symbols d
EffectivenessOf(out, d) ==
    /\ out.totalRuns = Cardinality(LongRunStarts(d))
    /\ out.maxRunLength = LongestRun(d)
    /\ IF LongRunStarts(d) = {}
       THEN out.averageRunLength = [num |-> 0, den |-> 1]
       ELSE /\ out.averageRunLength.den > 0
            /\ out.averageRunLength.num * Cardinality(LongRunStarts(d))
                   = Cardinality(InLongRun(d)) * out.averageRunLength.den
    /\ out.compressionPotential.den > 0
    /\ out.compressionPotential.num * Len(d)
           = Cardinality(InLongRun(d)) * out.compressionPotential.den
    /\ out.recommendRLE <=> (\/ 10 * Cardinality(LongRunStarts(d)) > Len(d)
                             \/ LongestRun(d) > 4)

\* C23: for every non-empty input analyzeRLEEffectiveness returns the
\* number of maximal runs longer than 1, the greatest length of such a run
\* (0 without one), their total length divided by their number (0 without
\* one), their total length divided by the input length, and recommends
\* RLE exactly when the number of runs exceeds a tenth of the input length
\* or the longest run exceeds 4; it never changes its input.
AnalyzerMeasuresRuns ==
    /\ [](\A c \in DOMAIN invoked :
              (/\ invoked[c].fn = "analyzeRLEEffectiveness"
               /\ invoked[c].at = "returned"
               /\ NonEmptyInput(invoked[c].arg))
                  => /\ invoked[c].outcome.ok
                     /\ EffectivenessOf(invoked[c].outcome.value, invoked[c].arg.d))
    /\ [][\A c \in DOMAIN invoked :
              invoked[c].fn = "analyzeRLEEffectiveness"
                  => /\ c \in DOMAIN invoked'
                     /\ invoked'[c].arg = invoked[c].arg]_vars

\* ten symbols with one run of two: the number of runs is exactly a tenth
\* of the length, and RLE is not recommended
AnalyzerWitness ==
    /\ DOMAIN invoked = {1}
    /\ invoked[1].fn = "analyzeRLEEffectiveness"
    /\ invoked[1].at = "returned"
    /\ invoked[1].arg = JsString(TenthRun(10))
    /\ invoked[1].outcome.ok
    /\ invoked[1].outcome.value.totalRuns = 1
    /\ invoked[1].outcome.value.compressionPotential = [num |-> 1, den |-> 5]
    /\ ~invoked[1].outcome.value.recommendRLE

ScanningFns == {"rleCompress", "rleCompressAdvanced", "analyzeRLEEffectiveness"}

\* the symbols of the input that item j of the items stands for
ItemSymbols(item) ==
    IF item.type = "sequence" THEN item.elements
    ELSE [k \in 1..ItemLength(item) |-> item.element]

\* the items stand, one after the other, for the symbols of d: every
\* position of d lies in exactly one item
ItemsCoverInput(items, d) ==
    /\ ExpandedLength(items, 1) = Len(d)
    /\ \A j \in 1..Len(items) :
           /\ ItemLength(items[j]) >= 1
           /\ ItemSymbols(items[j]) =
                  SubSeq(d, ItemStart(items, j),
                         ItemStart(items, j) + ItemLength(items[j]) - 1)

\* a call has been made
CallMade == invoked # <<>> \/ at # "idle"

\* the call followed has returned or thrown
CallFinished ==
    \/ \E c \in DOMAIN invoked : invoked[c].at = "returned"
    \/ at = "returned"

\* C24: every call of the codecs and of the analyzer terminates: each call
\* that is entered returns or throws; in every pass of the outer loop of
\* an encoder scan the index grows and stays within the input, every pass
\* of the merge loop leaves one node less in the queue, and the scan ends
\* with the index at the input length, every position of the input covered
\* by exactly one emitted item.
EveryCallTerminates ==
    /\ CallMade ~> CallFinished
    /\ [][/\ \A c \in DOMAIN invoked :
                (/\ invoked[c].fn \in ScanningFns
                 /\ invoked[c].at = "looping"
                 /\ locals'[c] # locals[c])
                    => /\ locals'[c].i > locals[c].i
                       /\ locals'[c].i <= Len(invoked[c].arg.d)
          /\ merges' # merges => Len(minHeap') = Len(minHeap) - 1]_vars
    /\ [](\A c \in DOMAIN invoked :
              (/\ invoked[c].fn \in ScanningFns
               /\ invoked[c].at = "returned"
               /\ invoked[c].outcome.ok)
                  => /\ locals[c].i = Len(invoked[c].arg.d)
                     /\ invoked[c].fn # "analyzeRLEEffectiveness"
                            => ItemsCoverInput(invoked[c].outcome.value.compressed,
                                               invoked[c].arg.d))

\* the adaptive scan has returned after three passes or more, with a
\* sequence item and a run item among those it emitted
ScanFinishedWitness ==
    /\ DOMAIN invoked = {1}
    /\ invoked[1].fn = "rleCompressAdvanced"
    /\ invoked[1].at = "returned"
    /\ invoked[1].outcome.ok
    /\ Len(invoked[1].outcome.value.compressed) >= 3
    /\ \E j \in 1..Len(invoked[1].outcome.value.compressed) :
           /\ invoked[1].outcome.value.compressed[j].type = "sequence"
           /\ Len(invoked[1].outcome.value.compressed[j].elements) >= 2
    /\ \E j \in 1..Len(invoked[1].outcome.value.compressed) :
           invoked[1].outcome.value.compressed[j].type = "run"
    /\ locals[1].i = Len(invoked[1].arg.d)

\* C25: the adaptive decoder accepts what the basic encoder emits: for every
\* non-empty input, rleDecompressAdvanced applied to the payload that
\* rleCompress returned for it returns exactly the input, 'single' items
\* included.
AdvancedDecodesBasic ==
    RoundTrip("rleCompress", "rleDecompressAdvanced")
        => (thrown = NoError /\ result = data)

\* "aa1a1" has been compressed by rleCompress to a run and three singles
\* and restored by rleDecompressAdvanced
AdvancedDecodesBasicWitness ==
    /\ RoundTrip("rleCompress", "rleDecompressAdvanced")
    /\ data = JsString(<<97, 97, 49, 97, 49>>)
    /\ Len(payload.compressed) = 4
    /\ \E j \in 1..Len(payload.compressed) : payload.compressed[j].type = "single"
    /\ \E j \in 1..Len(payload.compressed) : payload.compressed[j].type = "run"
    /\ result = data

\* the answers of the server to a Compress request for the file selected
CompressAnswers ==
    {PostCompress([file |-> file, body |-> [algorithm |-> key]]) :
         key \in {"huffman", "rle"}}

\* C26: under every interleaving of uploads, clicks and responses, a
\* compressedData or compressionStats that is not null is the result of
\* compressing the file that is selected now: an upload clears the results
\* of earlier operations and no response that arrives later brings back the
\* results of an earlier file.
ResultsBelongToSelectedFile ==
    /\ compressedData # JsNull
           => /\ file # JsNull
              /\ \E answer \in CompressAnswers :
                     /\ answer.status = 200
                     /\ compressedData = answer.body.compressedData
    /\ compressionStats # JsNull
           => /\ file # JsNull
              /\ \E answer \in CompressAnswers :
                     /\ answer.status = 200
                     /\ compressionStats = answer.body.stats

\* C27: every Compress or Decompress action that sets isProcessing to true
\* is followed by isProcessing set back to false once its request has
\* settled, whatever the outcome: a success, an error status, a failed
\* fetch, and the decompress path that returns inside try after sending
\* compressedData in a JSON body.
ProcessingEnds ==
    /\ isProcessing ~> ~isProcessing
    /\ [][(pending # NoFetch /\ pending' = NoFetch) => ~isProcessing']_vars
    /\ [](isProcessing <=> pending # NoFetch)

\* with no file selected, compressedData went out in a JSON body, the
\* answer arrived and the handler returned inside try: processing is over
ProcessingEndsWitness ==
    /\ settled = [handler |-> "decompress", reached |-> TRUE]
    /\ file = JsNull
    /\ compressedData # JsNull
    /\ decompressedData # JsNull
    /\ pending = NoFetch
    /\ ~isProcessing

\* every stored node's frequency is at least its parent's
HeapOrdered(heap) ==
    \A index \in 1..(Len(heap) - 1) :
        At(heap, getParentIndex(index)).freq <= At(heap, index).freq

\* the nodes of `larger` are those of `smaller` and `node` once more
OneMore(larger, smaller, node) ==
    /\ Len(larger) = Len(smaller) + 1
    /\ \A n \in HeapNodes :
           Occurrences(larger, n) = Occurrences(smaller, n) + (IF n = node THEN 1 ELSE 0)

\* C28: after any sequence of insert and extractMin on a MinHeap every
\* stored node's frequency is at least its parent's; extractMin returns a
\* node of minimal frequency among those stored and removes exactly that
\* node (one node less, the others stay), on an empty heap it returns null
\* and leaves the heap empty; insert adds exactly one node.
HeapInvariant ==
    /\ []HeapOrdered(minHeap)
    /\ [][at' = "inserted"
              => \E node \in HeapNodes : OneMore(minHeap', minHeap, node)]_vars
    /\ [][at' = "extracted"
              => IF Len(minHeap) = 0
                 THEN built' = JsNull /\ minHeap' = <<>>
                 ELSE /\ built' \in HeapNodes
                      /\ \A k \in 1..Len(minHeap) : built'.freq <= minHeap[k].freq
                      /\ OneMore(minHeap, minHeap', built')]_vars

\* the minimum has been extracted from a full heap: the nodes that stay are
\* in order under a root of higher frequency than the node returned
HeapWitness ==
    /\ at = "extracted"
    /\ Len(minHeap) = MaxHeap - 1
    /\ built # JsNull
    /\ minHeap[1].freq > built.freq
    /\ minHeap[1].freq < minHeap[2].freq
    /\ minHeap[3].freq < minHeap[2].freq

====
